---- MODULE Spec2Model ----
(***************************************************************************)
(* Model of the logistics system's vehicle allocator (Main.select_vehicle) *)
(* and of the handlers that change the vehicle and order stores:           *)
(* add_bike / add_truck / add_ship, remove_vehicles, add_order_shipment,   *)
(* add_item_to_order and update_order_status.                              *)
(*                                                                         *)
(* The stores are CSV files; each is modelled as the sequence of its rows  *)
(* in file order.  Numeric cells are written with str() and read back with *)
(* int()/float(); for the integer values that occur here that round trip   *)
(* gives the same number, so cells hold numbers.  The one cell whose       *)
(* written form differs from the value is an order's Vehicle cell: None is *)
(* written as the empty text, which is kept apart from a written list.     *)
(* Weights are whole kilograms.  The program is single threaded and every  *)
(* handler runs to its end (or to an uncaught exception) before the next   *)
(* menu choice is read, so a handler is one action.  The payment store is  *)
(* written by add_item_to_order but read by nothing modelled here and is   *)
(* left out, and so are the cells of an order row that no vehicle handling *)
(* reads (Items, Total Weight, customer).  A record kept in an order's     *)
(* Vehicle cell is reduced to its Vehicle ID, the one field read back.     *)
(*                                                                         *)
(* call is the frame of the handler that ran last: what it was given, what *)
(* it found and what select_vehicle returned to it.  It is cleared when    *)
(* the menu is shown again.  calls counts the menu choices handled so far. *)
(***************************************************************************)
EXTENDS Integers, Sequences, FiniteSets, TLC

(***************************************************************************)
(* Bounds of the model.                                                    *)
(***************************************************************************)
\* random.randint(1000, 9999) draws one of NumIds numbers
NumIds == 2
\* rows in vehicle.csv
MaxVehicles == 2
\* rows in order.csv
MaxOrders == 2
\* menu choices handled in the run of the program that is explored
MaxCalls == 4
\* allocation batches kept in one order's Vehicle cell
MaxBatches == 2

IdNums == 1..NumIds

(***************************************************************************)
(* Program constants.                                                      *)
(***************************************************************************)
BikeMaxWeight == 10
BikeMaxItems == 2
TruckMaxWeight == 3000
TruckMaxItems == 100
ShipMaxWeight == 100000
ShipMaxItems == 10000

\* repr(Location(city, country)) is "city/country"
StartPositions == {"Oslo/Norway"}
DeliveryLocations == {"Rome/Italy", "Lyon/France"}
OrderStatuses == {"delivered", "processing", "canceled"}

\* item.csv as found at start: rows written by earlier add_item_to_database
\* calls (check_positive_float accepts 0, so a weight of 0 can be stored)
Solid2 == <<"I", 1>>
Fragile1 == <<"I", 2>>
Solid6 == <<"I", 3>>
Solid0 == <<"I", 4>>
Unknown == <<"I", 5>>
InitialItems ==
    << [ID |-> Solid2, Weight |-> 2, Type |-> "solid"],
       [ID |-> Fragile1, Weight |-> 1, Type |-> "fragile"],
       [ID |-> Solid6, Weight |-> 6, Type |-> "solid"],
       [ID |-> Solid0, Weight |-> 0, Type |-> "solid"] >>

\* what a user types in the item loop of add_item_to_order: for each line
\* an item id and then a quantity (check_positive_integer: >= 1)
Line(item_id, quantity) == [ItemID |-> item_id, Quantity |-> quantity]
TypedRequests ==
    { <<>>,
      << Line(Solid2, 1) >>,
      << Line(Solid2, 3) >>,
      << Line(Fragile1, 3) >>,
      << Line(Solid2, 1), Line(Solid6, 1) >>,
      << Line(Solid6, 1), Line(Solid6, 1) >>,
      << Line(Solid6, 2), Line(Solid2, 2) >>,
      << Line(Fragile1, 1), Line(Solid2, 2) >>,
      << Line(Unknown, 1), Line(Solid2, 2) >>,
      << Line(Solid2, 1), Line(Solid0, 1) >> }

VARIABLES vehicle_db, item_db, order_db, call, calls, user_db, login
vars == <<vehicle_db, item_db, order_db, call, calls, user_db, login>>

(***************************************************************************)
(* Generic helpers.                                                        *)
(***************************************************************************)
Min2(a, b) == IF a <= b THEN a ELSE b
Min3(a, b, c) == Min2(a, Min2(b, c))

\* int(a / b) of Python for b > 0: truncation toward zero
IntTrunc(a, b) == IF a >= 0 THEN a \div b ELSE -((-a) \div b)

RECURSIVE SumSeq(_)
SumSeq(s) == IF s = <<>> THEN 0 ELSE Head(s) + SumSeq(Tail(s))

Indices(s) == 1..Len(s)

(***************************************************************************)
(* MyCSV: update_data and remove_data act on every row whose search field  *)
(* equals the search value; update_data reports whether one was found.     *)
(***************************************************************************)
MatchingRows(rows, field, value) == {i \in Indices(rows) : rows[i][field] = value}

\* row.update(update_data): the given fields replace the row's
RowUpdate(row, upd) ==
    [f \in DOMAIN row |-> IF f \in DOMAIN upd THEN upd[f] ELSE row[f]]

\* an update_data without the test of line 92
UpdateData_EveryRow(rows, field, value, upd) ==
    [i \in Indices(rows) |-> RowUpdate(rows[i], upd)]

UpdateData(rows, field, value, upd) ==
    [i \in Indices(rows) |->
        IF rows[i][field] = value THEN RowUpdate(rows[i], upd) ELSE rows[i]]

RemoveData(rows, field, value) == SelectSeq(rows, LAMBDA r : r[field] # value)

\* find_*_by_id: the first row with the id, or none (0 stands for None)
FirstIndex(rows, field, value) ==
    IF MatchingRows(rows, field, value) = {} THEN 0
    ELSE CHOOSE i \in MatchingRows(rows, field, value) :
            \A j \in MatchingRows(rows, field, value) : i <= j

(***************************************************************************)
(* Main.select_vehicle.                                                    *)
(*                                                                         *)
(* A vehicle row is [VehicleID, Type, MaxW, MaxI, RemW, RemI, Pos, Status],*)
(* a catalog row [ID, Weight, Type], a request line [ItemID, Quantity].    *)
(* The running state of one call is a record:                              *)
(*   db                store rows as written so far                        *)
(*   remaining_weight, remaining_items   the running order counters        *)
(*   lines             the request lines (Quantity is decremented)         *)
(*   rwc, ric          remaining_weight_capacity / remaining_item_capacity *)
(*                     of the vehicle being loaded                         *)
(*   updates           the list that is returned                           *)
(*   steps             one entry per load made (bookkeeping for the        *)
(*                     properties; the code prints these)                  *)
(*   error             "none", or the exception that ended the call        *)
(*   shortfall         whether "Not enough vehicle capacity" was printed   *)
(***************************************************************************)

\* the sort key (int(Max Capacity (Item Count)), float(Max Capacity (Weight)))
KeyLess(a, b) == a.MaxI < b.MaxI \/ (a.MaxI = b.MaxI /\ a.MaxW < b.MaxW)

\* position of row i after list.sort (stable: equal keys keep their order)
SortRank(rows, i) ==
    1 + Cardinality({j \in Indices(rows) :
            KeyLess(rows[j], rows[i])
            \/ (~KeyLess(rows[i], rows[j]) /\ j < i)})

\* a select_vehicle without the sort of line 660
SortVehicles_StoredOrder(rows) == rows

SortVehicles(rows) ==
    [p \in Indices(rows) |-> rows[CHOOSE i \in Indices(rows) : SortRank(rows, i) = p]]

\* the test of line 676, negated: the vehicle is not skipped
NotSkipped_IgnoresStatus(vd) == ~(vd.RemW <= 0 \/ vd.RemI <= 0)

NotSkipped(vd) == ~(vd.RemW <= 0 \/ vd.RemI <= 0 \/ vd.Status = "in_use")

\* a select_vehicle without the Bike/fragile test of line 693
BikeFragile_Never(vd, item) == FALSE

\* line 693: fragile items are not loaded onto Bikes
BikeFragile(vd, item) == vd.Type = "Bike" /\ item.Type = "fragile"

\* a loadable count that leaves out the item-capacity term of line 699
LoadableItems_NoItemCapacity(quantity, remaining_items, ric, remaining_weight, rwc, item_weight) ==
    Min2(quantity, IntTrunc(Min2(remaining_weight, rwc), item_weight))

\* a loadable count that leaves out the line's quantity
LoadableItems_IgnoresQuantity(quantity, remaining_items, ric, remaining_weight, rwc, item_weight) ==
    Min2(Min2(remaining_items, ric), IntTrunc(Min2(remaining_weight, rwc), item_weight))

\* a loadable count that never exceeds one unit
LoadableItems_AtMostOne(quantity, remaining_items, ric, remaining_weight, rwc, item_weight) ==
    Min2(1, Min3(quantity,
                 Min2(remaining_items, ric),
                 IntTrunc(Min2(remaining_weight, rwc), item_weight)))

\* lines 697-701, for an item weight > 0
LoadableItems(quantity, remaining_items, ric, remaining_weight, rwc, item_weight) ==
    Min3(quantity,
         Min2(remaining_items, ric),
         IntTrunc(Min2(remaining_weight, rwc), item_weight))

\* a record that leaves the vehicle's status as it was
UpdateRecord_KeepsStatus(vd, rwc, ric) ==
    [VehicleID |-> vd.VehicleID, Type |-> vd.Type, Status |-> vd.Status,
     RemW |-> rwc, RemI |-> ric]

\* lines 716-722
UpdateRecord(vd, rwc, ric) ==
    [VehicleID |-> vd.VehicleID, Type |-> vd.Type, Status |-> "in_use",
     RemW |-> rwc, RemI |-> ric]

\* a load step that keeps a single record per vehicle id in the returned list
ApplyLoad_OneRecordPerVehicle(st, vd, v, l, item, n) ==
    LET w == n * item.Weight
        upd == UpdateRecord(vd, st.rwc - w, st.ric - n)
        others == SelectSeq(st.updates, LAMBDA u : u.VehicleID # vd.VehicleID)
    IN [st EXCEPT
          !.remaining_weight = @ - w,
          !.remaining_items = @ - n,
          !.lines[l].Quantity = @ - n,
          !.rwc = @ - w,
          !.ric = @ - n,
          !.db = UpdateData(st.db, "VehicleID", vd.VehicleID, upd),
          !.updates = Append(others, upd),
          !.steps = Append(@, [v |-> v, VehicleID |-> vd.VehicleID, Type |-> vd.Type,
                               l |-> l, ItemID |-> item.ID, ItemType |-> item.Type,
                               n |-> n, w |-> w])]

\* a load that returns one record for each unit loaded
ApplyLoad_RecordPerUnit(st, vd, v, l, item, n) ==
    LET w == n * item.Weight
        upd == UpdateRecord(vd, st.rwc - w, st.ric - n)
    IN [st EXCEPT
          !.remaining_weight = @ - w,
          !.remaining_items = @ - n,
          !.lines[l].Quantity = @ - n,
          !.rwc = @ - w,
          !.ric = @ - n,
          !.db = UpdateData(st.db, "VehicleID", vd.VehicleID, upd),
          !.updates = @ \o [i \in 1..n |-> upd],
          !.steps = @ \o [i \in 1..n |->
                             [v |-> v, VehicleID |-> vd.VehicleID, Type |-> vd.Type,
                              l |-> l, ItemID |-> item.ID, ItemType |-> item.Type,
                              n |-> n, w |-> w]]]

\* lines 703-728: load n > 0 units of line l onto vehicle vd
ApplyLoad(st, vd, v, l, item, n) ==
    LET w == n * item.Weight
        upd == UpdateRecord(vd, st.rwc - w, st.ric - n)
    IN [st EXCEPT
          !.remaining_weight = @ - w,
          !.remaining_items = @ - n,
          !.lines[l].Quantity = @ - n,
          !.rwc = @ - w,
          !.ric = @ - n,
          !.db = UpdateData(st.db, "VehicleID", vd.VehicleID, upd),
          !.updates = Append(@, upd),
          !.steps = Append(@, [v |-> v, VehicleID |-> vd.VehicleID, Type |-> vd.Type,
                               l |-> l, ItemID |-> item.ID, ItemType |-> item.Type,
                               n |-> n, w |-> w])]

\* a lookup without the default of line 685: next() on an id the catalog
\* lacks raises
LoadLine_UnresolvedRaises(st, vd, v, items, l) ==
    LET k == FirstIndex(items, "ID", st.lines[l].ItemID)
    IN IF k = 0 THEN [st EXCEPT !.error = "StopIteration"]
       ELSE IF BikeFragile(vd, items[k]) THEN st
       ELSE IF items[k].Weight = 0 THEN [st EXCEPT !.error = "ZeroDivisionError"]
       ELSE LET n == LoadableItems(st.lines[l].Quantity, st.remaining_items, st.ric,
                                   st.remaining_weight, st.rwc, items[k].Weight)
            IN IF n > 0 THEN ApplyLoad(st, vd, v, l, items[k], n) ELSE st

\* lines 679-728: one request line against one vehicle
LoadLine(st, vd, v, items, l) ==
    LET k == FirstIndex(items, "ID", st.lines[l].ItemID)
    IN IF k = 0 THEN st
       ELSE IF BikeFragile(vd, items[k]) THEN st
       ELSE IF items[k].Weight = 0 THEN [st EXCEPT !.error = "ZeroDivisionError"]
       ELSE LET n == LoadableItems(st.lines[l].Quantity, st.remaining_items, st.ric,
                                   st.remaining_weight, st.rwc, items[k].Weight)
            IN IF n > 0 THEN ApplyLoad(st, vd, v, l, items[k], n) ELSE st

RECURSIVE LoadLines(_, _, _, _, _)
LoadLines(st, vd, v, items, l) ==
    IF st.error # "none" \/ l > Len(st.lines) THEN st
    ELSE LoadLines(LoadLine(st, vd, v, items, l), vd, v, items, l + 1)

\* lines 666-728: the loop over the sorted snapshot
RECURSIVE VehicleLoop(_, _, _, _)
VehicleLoop(st, vehicles, items, v) ==
    IF st.error # "none" \/ v > Len(vehicles) THEN st
    ELSE IF st.remaining_weight <= 0 /\ st.remaining_items <= 0 THEN st
    ELSE IF ~NotSkipped(vehicles[v]) THEN VehicleLoop(st, vehicles, items, v + 1)
    ELSE VehicleLoop(
            LoadLines([st EXCEPT !.rwc = vehicles[v].RemW, !.ric = vehicles[v].RemI],
                      vehicles[v], v, items, 1),
            vehicles, items, v + 1)

\* a shortfall test that overlooks a remainder of one
NotEnoughCapacity_OffByOne(remaining_items) == remaining_items > 1

\* line 729
NotEnoughCapacity(remaining_items) == remaining_items > 0

SelectVehicle(db, items, total_weight, item_count, lines) ==
    LET fin == VehicleLoop(
                  [db |-> db, remaining_weight |-> total_weight,
                   remaining_items |-> item_count, lines |-> lines,
                   rwc |-> 0, ric |-> 0, updates |-> <<>>, steps |-> <<>>,
                   error |-> "none", shortfall |-> FALSE],
                  SortVehicles(db), items, 1)
    IN IF fin.error # "none" THEN fin
       ELSE [fin EXCEPT !.shortfall = NotEnoughCapacity(fin.remaining_items)]


(***************************************************************************)
(* Id generation.  load_ids_from_csv keeps row['ID'] of the rows that have *)
(* an 'ID' column; the user and customer files have one (they are not      *)
(* modelled and hold no id with a vehicle, order or item prefix), while    *)
(* the vehicle, payment and order files name their id columns 'Vehicle     *)
(* ID', 'Transaction ID' and 'Order ID'.                                   *)
(***************************************************************************)
LoadIdsFromCsv(rows, id_column) ==
    {rows[i][id_column] : i \in {j \in Indices(rows) : id_column \in DOMAIN rows[j]}}

LoadExistingIds ==
    LoadIdsFromCsv(vehicle_db, "ID") \cup LoadIdsFromCsv(order_db, "ID")

\* the ids generate_unique_id(id_type) can return
GenerateUniqueId(id_type) ==
    {<<id_type, n>> : n \in IdNums} \ LoadExistingIds

(***************************************************************************)
(* call is the frame of the handler the menu loop of Main.run has called:  *)
(* its inputs, the stores it found, what it computed, returned or printed. *)
(* When the handler has returned the loop shows the menu again and the     *)
(* frame is gone (op = "menu"); a handler starts at the menu only.         *)
(***************************************************************************)
NoOrder ==
    [OrderID |-> <<"O", 0>>, DeliveryLocation |-> "", OrderStatus |-> "",
     Vehicle |-> [written |-> FALSE, batches |-> <<>>]]

NoAlloc ==
    [db |-> <<>>, remaining_weight |-> 0, remaining_items |-> 0, lines |-> <<>>,
     rwc |-> 0, ric |-> 0, updates |-> <<>>, steps |-> <<>>,
     error |-> "none", shortfall |-> FALSE]

Idle ==
    [op |-> "menu", outcome |-> "ok", id |-> <<"", 0>>, pre |-> <<>>,
     order |-> NoOrder, new_status |-> "", total_weight |-> 0, item_count |-> 0,
     lines |-> <<>>, called |-> FALSE, alloc |-> NoAlloc]

(***************************************************************************)
(* app.py and Main.login.  user_db is user.csv, of which the Full Name and *)
(* Password cells are kept.  login is the frame of the one login() call    *)
(* app.py makes: the name it looked up, the passwords read so far and the  *)
(* CHECK it returned.  phase is "login" while the name is asked for,       *)
(* "password" inside the loop of line 1130, "exit" after sys.exit() and    *)
(* "run" once app.run() has been entered.                                  *)
(***************************************************************************)
UserRow(full_name, password) == [FullName |-> full_name, Password |-> password]

\* passwords check_input_password lets through
TypedPasswords == {"winter#2024", "harbour!77", "q9$truckload"}

\* names check_input_name lets through, as typed; it returns them title-cased
TypedNames == {"mike smith", "Mike Smith", "Anna Berg", "Omar Said"}
Title(attribute) == IF attribute = "mike smith" THEN "Mike Smith" ELSE attribute

\* user.csv when login() is called: check_for_users has seen to it that
\* there is a user; add_user_main does not look at the names already stored
UserStores ==
    { << UserRow("Mike Smith", "winter#2024") >>,
      << UserRow("Mike Smith", "winter#2024"), UserRow("Anna Berg", "harbour!77") >>,
      << UserRow("Anna Berg", "harbour!77"), UserRow("Anna Berg", "winter#2024") >> }

\* line 1130: for attempt in range(3)
LoginAttempts == 3

\* a password test that lets every entry through
PasswordMatches_Always(password, user_data) == TRUE

\* line 1135
PasswordMatches(password, user_data) == password = user_data.Password

\* lines 1118-1127: the name is read and looked up
LoginName ==
    /\ login.phase = "login"
    /\ \E typed \in TypedNames :
          LET full_name == Title(typed)
          IN login' = [login EXCEPT
                          !.full_name = full_name,
                          !.phase = IF FirstIndex(user_db, "FullName", full_name) = 0
                                    THEN "exit" ELSE "password"]
    /\ UNCHANGED <<vehicle_db, item_db, order_db, call, calls, user_db>>

\* lines 1130-1144 and app.py 16-25: one pass of the password loop, and what
\* app.py does when login() returns
LoginPassword ==
    /\ login.phase = "password"
    /\ Len(login.entries) < LoginAttempts
    /\ \E password \in TypedPasswords :
          LET user_data == user_db[FirstIndex(user_db, "FullName", login.full_name)]
              entries == Append(login.entries, password)
          IN login' = IF PasswordMatches(password, user_data)
                      THEN [login EXCEPT !.entries = entries, !.check = TRUE,
                                         !.phase = "run"]
                      ELSE IF Len(entries) = LoginAttempts
                      THEN [login EXCEPT !.entries = entries, !.phase = "exit"]
                      ELSE [login EXCEPT !.entries = entries]
    /\ UNCHANGED <<vehicle_db, item_db, order_db, call, calls, user_db>>

\* app.run() has been entered after a login as the first user
LoggedIn ==
    [phase |-> "run", full_name |-> "Mike Smith", entries |-> << "winter#2024" >>,
     check |-> TRUE]

\* Main.run shows the menu and one more choice is explored
AtMenu == login.phase = "run" /\ call.op = "menu" /\ calls < MaxCalls

\* the state in which app.run() is entered
Init ==
    /\ vehicle_db = <<>>
    /\ item_db \in {<<>>, InitialItems}
    /\ order_db = <<>>
    /\ call = Idle
    /\ calls = 0
    /\ user_db = << UserRow("Mike Smith", "winter#2024") >>
    /\ login = LoggedIn

(***************************************************************************)
(* add_bike, add_truck, add_ship                                           *)
(***************************************************************************)
NewVehicle(vehicle_id, type, max_weight, max_items, position) ==
    [VehicleID |-> vehicle_id, Type |-> type,
     MaxW |-> max_weight, MaxI |-> max_items,
     RemW |-> max_weight, RemI |-> max_items,
     Pos |-> position, Status |-> "free"]

AddVehicle(op, id_type, type, max_weight, max_items) ==
    /\ AtMenu
    /\ Len(vehicle_db) < MaxVehicles
    /\ \E vehicle_id \in GenerateUniqueId(id_type), position \in StartPositions :
          /\ vehicle_db' = Append(vehicle_db,
                                  NewVehicle(vehicle_id, type, max_weight, max_items, position))
          /\ call' = [Idle EXCEPT !.op = op, !.id = vehicle_id]
    /\ calls' = calls + 1
    /\ UNCHANGED <<item_db, order_db, user_db, login>>

AddBike == AddVehicle("add_bike", "B", "Bike", BikeMaxWeight, BikeMaxItems)
AddTruck == AddVehicle("add_truck", "T", "Truck", TruckMaxWeight, TruckMaxItems)
AddShip == AddVehicle("add_ship", "S", "Ship", ShipMaxWeight, ShipMaxItems)

\* the vehicle ids a user may type (validate_id: a letter and four digits)
TypedVehicleIds == {<<p, n>> : p \in {"B", "T", "S"}, n \in IdNums}
TypedOrderIds == {<<"O", n>> : n \in IdNums}

(***************************************************************************)
(* remove_vehicles                                                         *)
(***************************************************************************)
\* a remove_vehicles without the in_use test of lines 548-550
RemoveVehicles_IgnoresStatus ==
    /\ AtMenu
    /\ vehicle_db # <<>>
    /\ \E vehicle_id \in TypedVehicleIds :
          LET i == FirstIndex(vehicle_db, "VehicleID", vehicle_id)
          IN IF i = 0
             THEN /\ vehicle_db' = vehicle_db
                  /\ call' = [Idle EXCEPT !.op = "remove_vehicles", !.id = vehicle_id,
                                          !.pre = vehicle_db, !.outcome = "not_found"]
             ELSE /\ vehicle_db' = RemoveData(vehicle_db, "VehicleID", vehicle_id)
                  /\ call' = [Idle EXCEPT !.op = "remove_vehicles", !.id = vehicle_id,
                                          !.pre = vehicle_db, !.outcome = "ok"]
    /\ calls' = calls + 1
    /\ UNCHANGED <<item_db, order_db, user_db, login>>

RemoveVehicles ==
    /\ AtMenu
    /\ vehicle_db # <<>>
    /\ \E vehicle_id \in TypedVehicleIds :
          LET i == FirstIndex(vehicle_db, "VehicleID", vehicle_id)
          IN IF i = 0
             THEN /\ vehicle_db' = vehicle_db
                  /\ call' = [Idle EXCEPT !.op = "remove_vehicles", !.id = vehicle_id,
                                          !.pre = vehicle_db, !.outcome = "not_found"]
             ELSE IF vehicle_db[i].Status = "in_use"
             THEN /\ vehicle_db' = vehicle_db
                  /\ call' = [Idle EXCEPT !.op = "remove_vehicles", !.id = vehicle_id,
                                          !.pre = vehicle_db, !.outcome = "in_use"]
             ELSE /\ vehicle_db' = RemoveData(vehicle_db, "VehicleID", vehicle_id)
                  /\ call' = [Idle EXCEPT !.op = "remove_vehicles", !.id = vehicle_id,
                                          !.pre = vehicle_db, !.outcome = "ok"]
    /\ calls' = calls + 1
    /\ UNCHANGED <<item_db, order_db, user_db, login>>


(***************************************************************************)
(* add_item_to_order and add_order_shipment.                               *)
(*                                                                         *)
(* An order row keeps the cells the vehicle handling reads: [OrderID,      *)
(* DeliveryLocation, OrderStatus, Vehicle].  The Vehicle cell is [written, *)
(* batches]: written is FALSE while the cell holds the empty text that     *)
(* None was saved as, and batches is the list of the lists select_vehicle  *)
(* returned, each record kept by its 'Vehicle ID' (the one key that        *)
(* update_vehicle_status and reset_vehicle_status read back).              *)
(***************************************************************************)

\* lines 798-823: the lines kept of what was typed; an id that
\* find_item_by_id does not find is not appended
EnteredLines(typed) ==
    SelectSeq(typed, LAMBDA t : FirstIndex(item_db, "ID", t.ItemID) # 0)

\* lines 814-820: Weight is quantity * float(selected_item['Weight'])
OrderItems(entered) ==
    [k \in Indices(entered) |->
        [ItemID |-> entered[k].ItemID,
         Quantity |-> entered[k].Quantity,
         Weight |-> entered[k].Quantity
                    * item_db[FirstIndex(item_db, "ID", entered[k].ItemID)].Weight]]

\* lines 826 and 830
TotalWeightOf(order_items) == SumSeq([k \in Indices(order_items) |-> order_items[k].Weight])
TotalItemCountOf(order_items) == SumSeq([k \in Indices(order_items) |-> order_items[k].Quantity])

\* line 832
ItemsIdsAndQuantities(order_items) ==
    [k \in Indices(order_items) |->
        [ItemID |-> order_items[k].ItemID, Quantity |-> order_items[k].Quantity]]

\* line 837: eval(order_data['Vehicle']) if order_data['Vehicle'] else list()
ParseOrderVehicles(cell) == IF cell.written THEN cell.batches ELSE <<>>

\* a record of the returned list as the order row keeps it
StoredEntry(update_data) == [VehicleID |-> update_data.VehicleID]
StoredBatch(vehicle) == [k \in Indices(vehicle) |-> StoredEntry(vehicle[k])]

\* lines 840-841: if vehicle: order_vehicles.append(vehicle)
AppendBatch(order_vehicles, vehicle) ==
    IF vehicle # <<>> THEN Append(order_vehicles, StoredBatch(vehicle))
    ELSE order_vehicles

\* lines 872-880: the cells of the row that are kept here
OrderUpdate(order_vehicles) ==
    [Vehicle |-> [written |-> TRUE, batches |-> order_vehicles]]

\* add_item_to_order(order_id) run on stores vdb / odb with the items
\* `entered`: the stores it leaves and the record of the call
AddItemToOrderRun(op, vdb, odb, order_id, entered) ==
    LET oi == FirstIndex(odb, "OrderID", order_id)
        base == [Idle EXCEPT !.op = op, !.id = order_id, !.pre = vdb]
    IN IF oi = 0
       THEN [vehicle_db |-> vdb, order_db |-> odb,
             call |-> [base EXCEPT !.outcome = "no_order"]]
       ELSE IF item_db = <<>>
       THEN [vehicle_db |-> vdb, order_db |-> odb,
             call |-> [base EXCEPT !.outcome = "no_items", !.order = odb[oi]]]
       ELSE
         LET order_items == OrderItems(entered)
             total_weight == TotalWeightOf(order_items)
             total_item_count == TotalItemCountOf(order_items)
             lines == ItemsIdsAndQuantities(order_items)
             alloc == SelectVehicle(vdb, item_db, total_weight, total_item_count, lines)
             called == [base EXCEPT !.order = odb[oi], !.total_weight = total_weight,
                                    !.item_count = total_item_count, !.lines = lines,
                                    !.called = TRUE, !.alloc = alloc]
         IN IF alloc.error # "none"
            THEN [vehicle_db |-> alloc.db, order_db |-> odb,
                  call |-> [called EXCEPT !.outcome = alloc.error]]
            ELSE [vehicle_db |-> alloc.db,
                  order_db |-> UpdateData(odb, "OrderID", order_id,
                                   OrderUpdate(
                                       AppendBatch(ParseOrderVehicles(odb[oi].Vehicle),
                                                   alloc.updates))),
                  call |-> called]

\* the rows kept within the bounds of the model
WithinBounds(odb) ==
    \A i \in Indices(odb) : Len(odb[i].Vehicle.batches) <= MaxBatches

AddItemToOrder ==
    /\ AtMenu
    /\ \E order_id \in TypedOrderIds, typed \in TypedRequests :
       LET run == AddItemToOrderRun("add_item_to_order", vehicle_db, order_db,
                                    order_id, EnteredLines(typed))
       IN /\ WithinBounds(run.order_db)
          /\ vehicle_db' = run.vehicle_db
          /\ order_db' = run.order_db
          /\ call' = run.call
          /\ calls' = calls + 1
          /\ UNCHANGED <<item_db, user_db, login>>

\* lines 621-634: the row saved before the items are asked for
NewOrder(order_id, delivery_location) ==
    [OrderID |-> order_id, DeliveryLocation |-> delivery_location,
     OrderStatus |-> "processing",
     Vehicle |-> [written |-> FALSE, batches |-> <<>>]]

AddOrderShipment ==
    /\ AtMenu
    /\ Len(order_db) < MaxOrders
    /\ \E order_id \in GenerateUniqueId("O"), delivery_location \in DeliveryLocations,
          typed \in TypedRequests :
          LET run == AddItemToOrderRun("add_order_shipment", vehicle_db,
                         Append(order_db, NewOrder(order_id, delivery_location)),
                         order_id, EnteredLines(typed))
          IN /\ WithinBounds(run.order_db)
             /\ vehicle_db' = run.vehicle_db
             /\ order_db' = run.order_db
             /\ call' = run.call
             /\ calls' = calls + 1
             /\ UNCHANGED <<item_db, user_db, login>>

(***************************************************************************)
(* update_order_status, update_vehicle_status, reset_vehicle_status        *)
(***************************************************************************)

\* a delivered reset that gives back one unit of capacity instead of setting
\* the capacities to their maxima
DeliveredUpdate_GivesBackOne(vehicle_data, delivery_location) ==
    [Pos |-> delivery_location, Status |-> "free",
     RemW |-> vehicle_data.RemW + 1, RemI |-> vehicle_data.RemI + 1]

\* lines 1025-1030
DeliveredUpdate(vehicle_data, delivery_location) ==
    [Pos |-> delivery_location, Status |-> "free",
     RemW |-> vehicle_data.MaxW, RemI |-> vehicle_data.MaxI]

\* a canceled reset that also moves the vehicle
CanceledUpdate_MovesVehicle(vehicle_data) ==
    [Pos |-> "Rome/Italy", Status |-> "free",
     RemW |-> vehicle_data.MaxW, RemI |-> vehicle_data.MaxI]

\* lines 1052-1056
CanceledUpdate(vehicle_data) ==
    [Status |-> "free", RemW |-> vehicle_data.MaxW, RemI |-> vehicle_data.MaxI]

UpdateVehicleStatus(vdb, vehicle_entry, delivery_location) ==
    LET i == FirstIndex(vdb, "VehicleID", vehicle_entry.VehicleID)
    IN IF i = 0 THEN vdb
       ELSE UpdateData(vdb, "VehicleID", vehicle_entry.VehicleID,
                       DeliveredUpdate(vdb[i], delivery_location))

ResetVehicleStatus(vdb, vehicle_entry) ==
    LET i == FirstIndex(vdb, "VehicleID", vehicle_entry.VehicleID)
    IN IF i = 0 THEN vdb
       ELSE UpdateData(vdb, "VehicleID", vehicle_entry.VehicleID, CanceledUpdate(vdb[i]))

\* the entries of the stored list, batch by batch (every stored entry is a
\* list: line 841 appends the list select_vehicle returned)
RECURSIVE Flatten(_)
Flatten(batches) ==
    IF batches = <<>> THEN <<>> ELSE Head(batches) \o Flatten(Tail(batches))

\* a loop that ends at the first entry whose vehicle is not in the store
RECURSIVE ForEachEntry_StopsAtMissing(_, _, _, _)
ForEachEntry_StopsAtMissing(vdb, entries, new_status, delivery_location) ==
    IF entries = <<>> THEN vdb
    ELSE IF FirstIndex(vdb, "VehicleID", Head(entries).VehicleID) = 0 THEN vdb
    ELSE ForEachEntry_StopsAtMissing(
            IF new_status = "delivered"
            THEN UpdateVehicleStatus(vdb, Head(entries), delivery_location)
            ELSE ResetVehicleStatus(vdb, Head(entries)),
            Tail(entries), new_status, delivery_location)

\* lines 980-989 and 995-1000: one call per entry, in order
RECURSIVE ForEachEntry(_, _, _, _)
ForEachEntry(vdb, entries, new_status, delivery_location) ==
    IF entries = <<>> THEN vdb
    ELSE ForEachEntry(
            IF new_status = "delivered"
            THEN UpdateVehicleStatus(vdb, Head(entries), delivery_location)
            ELSE ResetVehicleStatus(vdb, Head(entries)),
            Tail(entries), new_status, delivery_location)

\* lines 972-1000: what the new status does to the vehicle store
StatusEffect(vdb, order_data, new_status) ==
    IF new_status \in {"delivered", "canceled"}
    THEN ForEachEntry(vdb, Flatten(order_data.Vehicle.batches), new_status,
                      order_data.DeliveryLocation)
    ELSE vdb

UpdateOrderStatus ==
    /\ AtMenu
    /\ \E order_id \in TypedOrderIds, new_status \in OrderStatuses :
       LET oi == FirstIndex(order_db, "OrderID", order_id)
           base == [Idle EXCEPT !.op = "update_order_status", !.id = order_id,
                                !.pre = vehicle_db, !.new_status = new_status]
       IN /\ IF oi = 0
             THEN /\ UNCHANGED <<vehicle_db, order_db>>
                  /\ call' = [base EXCEPT !.outcome = "no_order"]
             ELSE IF new_status \in {"delivered", "canceled"}
                     /\ ~order_db[oi].Vehicle.written
             \* eval('') raises SyntaxError before anything is written
             THEN /\ UNCHANGED <<vehicle_db, order_db>>
                  /\ call' = [base EXCEPT !.outcome = "SyntaxError", !.order = order_db[oi]]
             ELSE /\ vehicle_db' = StatusEffect(vehicle_db, order_db[oi], new_status)
                  /\ order_db' = UpdateData(order_db, "OrderID", order_id,
                                            [OrderStatus |-> new_status])
                  /\ call' = [base EXCEPT !.order = order_db[oi]]
          /\ calls' = calls + 1
          /\ UNCHANGED <<item_db, user_db, login>>

\* Main.run: the handler has returned and the menu is shown again
MainMenu ==
    /\ call.op # "menu"
    /\ call' = Idle
    /\ UNCHANGED <<vehicle_db, item_db, order_db, calls, user_db, login>>

Next ==
    \/ MainMenu
    \/ AddBike
    \/ AddTruck
    \/ AddShip
    \/ RemoveVehicles
    \/ AddOrderShipment
    \/ AddItemToOrder
    \/ UpdateOrderStatus

Spec == Init /\ [][Next]_vars

(***************************************************************************)
(* add_item_to_database, and the program started on an empty item.csv: the *)
(* catalog holds what add_item_to_database stored.  item.csv is not among  *)
(* the files load_existing_ids reads.                                      *)
(***************************************************************************)
MaxItems == 2

\* numbers a user may type for the weight (float() accepts all of them)
TypedWeights == {-1, 0, 2}
ItemTypes == {"solid", "fragile"}

\* validation.py 276-289: the number typed is returned unless attribute < 0
CheckPositiveFloat(attribute) == ~(attribute < 0)

AddItemToDatabase ==
    /\ AtMenu
    /\ Len(item_db) < MaxItems
    /\ \E item_id \in GenerateUniqueId("I"),
          weight \in {w \in TypedWeights : CheckPositiveFloat(w)},
          item_type \in ItemTypes :
          /\ item_db' = Append(item_db, [ID |-> item_id, Weight |-> weight,
                                         Type |-> item_type])
          /\ call' = [Idle EXCEPT !.op = "add_item_to_database", !.id = item_id]
    /\ calls' = calls + 1
    /\ UNCHANGED <<vehicle_db, order_db, user_db, login>>

InitCatalog ==
    /\ vehicle_db = <<>>
    /\ item_db = <<>>
    /\ order_db = <<>>
    /\ call = Idle
    /\ calls = 0
    /\ user_db = << UserRow("Mike Smith", "winter#2024") >>
    /\ login = LoggedIn

NextCatalog ==
    \/ MainMenu
    \/ AddItemToDatabase
    \/ AddBike
    \/ AddOrderShipment

SpecCatalog == InitCatalog /\ [][NextCatalog]_vars

(***************************************************************************)
(* The methods called on their own.  Main.select_vehicle takes the request *)
(* lines, the total weight and the item count from its caller, and         *)
(* Vehicle.update_vehicle the id and the fields; here a caller passes      *)
(* lines the catalog cannot resolve and ids the store does not hold, which *)
(* add_item_to_order never does.  The fleet is built by add_bike and       *)
(* add_truck.                                                              *)
(***************************************************************************)
\* vehicle.py 42-50: what the store holds afterwards, and whether the call
\* raised
UpdateVehicle(rows, vehicle_id, upd) ==
    [rows |-> UpdateData(rows, "VehicleID", vehicle_id, upd),
     error |-> IF MatchingRows(rows, "VehicleID", vehicle_id) # {}
               THEN "none" ELSE "ValueError"]

\* request lists a caller passes to select_vehicle
DirectRequests ==
    { << Line(Unknown, 1) >>,
      << Line(Unknown, 1), Line(Solid2, 2) >>,
      << Line(Solid2, 3), Line(Unknown, 2) >>,
      << Line(Solid2, 1), Line(Unknown, 1), Line(Solid6, 1) >>,
      << Line(Fragile1, 2), Line(Unknown, 1), Line(Solid2, 1) >>,
      << Line(Unknown, 1), Line(Solid0, 1) >>,
      << Line(Solid2, 3) >> }

\* the fields a caller passes to update_vehicle
DirectUpdates ==
    { [Status |-> "in_use"],
      [RemW |-> 4, RemI |-> 1, Status |-> "in_use"],
      [Pos |-> "Rome/Italy", Status |-> "free"] }

DirectSelectVehicle ==
    /\ AtMenu
    /\ \E lines \in DirectRequests, count_all \in BOOLEAN :
          LET resolved == OrderItems(EnteredLines(lines))
              total_weight == TotalWeightOf(resolved)
              item_count == IF count_all
                            THEN SumSeq([k \in Indices(lines) |-> lines[k].Quantity])
                            ELSE TotalItemCountOf(resolved)
              alloc == SelectVehicle(vehicle_db, item_db, total_weight, item_count, lines)
          IN /\ vehicle_db' = alloc.db
             /\ call' = [Idle EXCEPT !.op = "select_vehicle", !.pre = vehicle_db,
                                     !.total_weight = total_weight,
                                     !.item_count = item_count, !.lines = lines,
                                     !.called = TRUE, !.alloc = alloc,
                                     !.outcome = IF alloc.error # "none"
                                                 THEN alloc.error ELSE "ok"]
    /\ calls' = calls + 1
    /\ UNCHANGED <<item_db, order_db, user_db, login>>

\* the frame of an update_vehicle call also holds the fields passed
DirectUpdateVehicle ==
    /\ AtMenu
    /\ \E vehicle_id \in TypedVehicleIds, update_data \in DirectUpdates :
          LET done == UpdateVehicle(vehicle_db, vehicle_id, update_data)
          IN /\ vehicle_db' = done.rows
             /\ call' = ("update_data" :> update_data)
                         @@ [Idle EXCEPT !.op = "update_vehicle", !.id = vehicle_id,
                                         !.pre = vehicle_db,
                                         !.outcome = IF done.error # "none"
                                                     THEN done.error ELSE "ok"]
    /\ calls' = calls + 1
    /\ UNCHANGED <<item_db, order_db, user_db, login>>

InitMethods ==
    /\ vehicle_db = <<>>
    /\ item_db = InitialItems
    /\ order_db = <<>>
    /\ call = Idle
    /\ calls = 0
    /\ user_db = << UserRow("Mike Smith", "winter#2024") >>
    /\ login = LoggedIn

NextMethods ==
    \/ MainMenu
    \/ AddBike
    \/ AddTruck
    \/ DirectSelectVehicle
    \/ DirectUpdateVehicle

SpecMethods == InitMethods /\ [][NextMethods]_vars

(***************************************************************************)
(* The program started on a vehicle.csv that holds a bike and a truck      *)
(* (add_bike and add_truck of an earlier run): orders are placed, their    *)
(* status is set and vehicles are removed, so that an order comes to refer *)
(* to a vehicle the store no longer holds.                                 *)
(***************************************************************************)
InitResets ==
    /\ vehicle_db = << NewVehicle(<<"B", 1>>, "Bike", BikeMaxWeight, BikeMaxItems,
                                  "Oslo/Norway"),
                       NewVehicle(<<"T", 1>>, "Truck", TruckMaxWeight, TruckMaxItems,
                                  "Oslo/Norway") >>
    /\ item_db = InitialItems
    /\ order_db = <<>>
    /\ call = Idle
    /\ calls = 0
    /\ user_db = << UserRow("Mike Smith", "winter#2024") >>
    /\ login = LoggedIn

NextResets ==
    \/ MainMenu
    \/ AddOrderShipment
    \/ UpdateOrderStatus
    \/ RemoveVehicles

SpecResets == InitResets /\ [][NextResets]_vars

(***************************************************************************)
(* The program started on the same vehicle.csv, with orders placed, items  *)
(* added to them and their status set: an order delivered and loaded again *)
(* comes to name a vehicle in two batches of its Vehicle field.            *)
(***************************************************************************)
NextRepeat ==
    \/ MainMenu
    \/ AddOrderShipment
    \/ AddItemToOrder
    \/ UpdateOrderStatus

SpecRepeat == InitResets /\ [][NextRepeat]_vars

(***************************************************************************)
(* The program from its start: app.py has called check_for_users and calls *)
(* login(); the menu handlers are those of Next and run once login has     *)
(* returned CHECK (AtMenu).                                                *)
(***************************************************************************)
InitLogin ==
    /\ vehicle_db = <<>>
    /\ item_db = InitialItems
    /\ order_db = <<>>
    /\ call = Idle
    /\ calls = 0
    /\ user_db \in UserStores
    /\ login = [phase |-> "login", full_name |-> "", entries |-> <<>>, check |-> FALSE]

NextLogin ==
    \/ LoginName
    \/ LoginPassword
    \/ MainMenu
    \/ AddBike
    \/ RemoveVehicles

SpecLogin == InitLogin /\ [][NextLogin]_vars


(***************************************************************************)
(* Python floats.  A float is an IEEE 754 double: the weights are read     *)
(* with float(), multiplied, added, subtracted and divided as doubles, and *)
(* every result is the exact result rounded to the nearest double, ties to *)
(* the even mantissa.  A double is kept here as [neg, m, e], standing for  *)
(* (-1)^neg * m * 2^e with m a natural number of exactly 53 bits (or 0),   *)
(* and the natural numbers that do not fit an integer of the model checker *)
(* are kept as sequences of digits to the base 2^15, lowest digit first.   *)
(* The values met here are far from the ends of the exponent range; there  *)
(* are no infinities, NaNs or subnormal numbers.                           *)
(*                                                                         *)
(* Every operator below first binds its arguments to their values          *)
(* (x \in {x0}), so that an argument is computed once however often the    *)
(* body reads it.                                                          *)
(***************************************************************************)
Base == 32768
BaseBits == 15
MantissaBits == 53

RECURSIVE Pow2(_)
Pow2(k0) ==
    CHOOSE r \in { IF k = 0 THEN 1 ELSE 2 * Pow2(k - 1) : k \in {k0} } : TRUE

RECURSIVE NNorm(_)
NNorm(a0) ==
    CHOOSE r \in
        { IF a = <<>> THEN <<>>
          ELSE IF a[Len(a)] = 0 THEN NNorm(SubSeq(a, 1, Len(a) - 1))
          ELSE a : a \in {a0} } : TRUE

RECURSIVE NFromInt(_)
NFromInt(n0) ==
    CHOOSE r \in
        { IF n = 0 THEN <<>> ELSE << n % Base >> \o NFromInt(n \div Base)
          : n \in {n0} } : TRUE

RECURSIVE NToInt(_)
NToInt(a0) ==
    CHOOSE r \in
        { IF a = <<>> THEN 0 ELSE a[1] + Base * NToInt(Tail(a)) : a \in {a0} } : TRUE

\* a + b + c for a carry c
RECURSIVE NAddC(_, _, _)
NAddC(a0, b0, c0) ==
    CHOOSE r \in
        { IF a = <<>> /\ b = <<>> THEN (IF c = 0 THEN <<>> ELSE << c >>)
          ELSE << ((IF a = <<>> THEN 0 ELSE a[1]) + (IF b = <<>> THEN 0 ELSE b[1]) + c)
                  % Base >>
               \o NAddC(IF a = <<>> THEN a ELSE Tail(a),
                        IF b = <<>> THEN b ELSE Tail(b),
                        ((IF a = <<>> THEN 0 ELSE a[1])
                         + (IF b = <<>> THEN 0 ELSE b[1]) + c) \div Base)
          : a \in {a0}, b \in {b0}, c \in {c0} } : TRUE
NAdd(a, b) == NAddC(a, b, 0)

\* a - b for a >= b
RECURSIVE NSubB(_, _, _)
NSubB(a0, b0, borrow0) ==
    CHOOSE r \in
        { IF a = <<>> THEN <<>>
          ELSE << (a[1] - (IF b = <<>> THEN 0 ELSE b[1]) - borrow + Base) % Base >>
               \o NSubB(Tail(a), IF b = <<>> THEN b ELSE Tail(b),
                        IF a[1] - (IF b = <<>> THEN 0 ELSE b[1]) - borrow < 0
                        THEN 1 ELSE 0)
          : a \in {a0}, b \in {b0}, borrow \in {borrow0} } : TRUE
NSub(a, b) == NNorm(NSubB(a, b, 0))

\* -1, 0 or 1 as a is below, equal to or above b
RECURSIVE NCmpFrom(_, _, _)
NCmpFrom(a0, b0, i0) ==
    CHOOSE r \in
        { IF i = 0 THEN 0
          ELSE IF a[i] < b[i] THEN -1
          ELSE IF a[i] > b[i] THEN 1
          ELSE NCmpFrom(a, b, i - 1)
          : a \in {a0}, b \in {b0}, i \in {i0} } : TRUE
NCmp(a0, b0) ==
    CHOOSE r \in
        { IF Len(a) < Len(b) THEN -1
          ELSE IF Len(a) > Len(b) THEN 1
          ELSE NCmpFrom(a, b, Len(a))
          : a \in {a0}, b \in {b0} } : TRUE

\* a * k + c for k < Base
RECURSIVE NMulSmallC(_, _, _)
NMulSmallC(a0, k0, c0) ==
    CHOOSE r \in
        { IF a = <<>> THEN (IF c = 0 THEN <<>> ELSE << c >>)
          ELSE << (a[1] * k + c) % Base >>
               \o NMulSmallC(Tail(a), k, (a[1] * k + c) \div Base)
          : a \in {a0}, k \in {k0}, c \in {c0} } : TRUE
NMulSmall(a, k0) ==
    CHOOSE r \in { IF k = 0 THEN <<>> ELSE NMulSmallC(a, k, 0) : k \in {k0} } : TRUE

NShlDigits(a0, j0) ==
    CHOOSE r \in
        { IF a = <<>> THEN <<>> ELSE [i \in 1..j |-> 0] \o a
          : a \in {a0}, j \in {j0} } : TRUE

RECURSIVE NMul(_, _)
NMul(a0, b0) ==
    CHOOSE r \in
        { IF b = <<>> THEN <<>>
          ELSE NAdd(NMulSmall(a, b[1]), NShlDigits(NMul(a, Tail(b)), 1))
          : a \in {a0}, b \in {b0} } : TRUE

\* a \div d for 0 < d < Base
RECURSIVE NDivSmallFrom(_, _, _, _)
NDivSmallFrom(a0, d0, i0, r0) ==
    CHOOSE v \in
        { IF i = 0 THEN <<>>
          ELSE Append(NDivSmallFrom(a, d, i - 1, (r * Base + a[i]) % d),
                      (r * Base + a[i]) \div d)
          : a \in {a0}, d \in {d0}, i \in {i0}, r \in {r0} } : TRUE
NDivSmall(a0, d) ==
    CHOOSE r \in { NNorm(NDivSmallFrom(a, d, Len(a), 0)) : a \in {a0} } : TRUE

\* a * 2^k and a \div 2^k
NShl(a, k0) ==
    CHOOSE r \in
        { NShlDigits(NMulSmall(a, Pow2(k % BaseBits)), k \div BaseBits)
          : k \in {k0} } : TRUE
NShr(a0, k0) ==
    CHOOSE r \in
        { IF k \div BaseBits >= Len(a) THEN <<>>
          ELSE NDivSmall(SubSeq(a, k \div BaseBits + 1, Len(a)), Pow2(k % BaseBits))
          : a \in {a0}, k \in {k0} } : TRUE

RECURSIVE BitLenSmall(_)
BitLenSmall(n0) ==
    CHOOSE r \in
        { IF n = 0 THEN 0 ELSE 1 + BitLenSmall(n \div 2) : n \in {n0} } : TRUE
NBitLen(a0) ==
    CHOOSE r \in
        { IF a = <<>> THEN 0 ELSE BaseBits * (Len(a) - 1) + BitLenSmall(a[Len(a)])
          : a \in {a0} } : TRUE
NIsOdd(a0) == \E a \in {a0} : a # <<>> /\ a[1] % 2 = 1

FZero == [neg |-> FALSE, m |-> <<>>, e |-> 0]

\* rounding of n = q * 2^d + r to q or q + 1: up above the half, down below
\* it, and on the half to the even one unless a fraction is left (sticky)
FRoundTo(neg, q0, r0, d0, e, sticky) ==
    CHOOSE v \in
        { CHOOSE w \in
              { IF NBitLen(q1) > MantissaBits
                THEN [neg |-> neg, m |-> NShr(q1, 1), e |-> e + d + 1]
                ELSE [neg |-> neg, m |-> q1, e |-> e + d]
                : q1 \in { IF c > 0 \/ (c = 0 /\ (sticky \/ NIsOdd(q)))
                           THEN NAdd(q, << 1 >>) ELSE q } } : TRUE
          : q \in {q0}, d \in {d0}, c \in { NCmp(r0, NShl(<< 1 >>, d0 - 1)) } } : TRUE

\* the double nearest to (-1)^neg * (n + f) * 2^e, where 0 < f < 1 if sticky
\* and f = 0 otherwise (sticky only with n of more than 53 bits)
FRoundLen(neg, n0, e, sticky, len0) ==
    CHOOSE v \in
        { IF n = <<>> THEN FZero
          ELSE IF len <= MantissaBits
          THEN [neg |-> neg, m |-> NShl(n, MantissaBits - len),
                e |-> e - (MantissaBits - len)]
          ELSE CHOOSE w \in
                   { FRoundTo(neg, q, NSub(n, NShl(q, len - MantissaBits)),
                              len - MantissaBits, e, sticky)
                     : q \in { NShr(n, len - MantissaBits) } } : TRUE
          : n \in {n0}, len \in {len0} } : TRUE
FRound(neg0, n0, e0, sticky0) ==
    CHOOSE v \in
        { FRoundLen(neg, n, e, sticky, NBitLen(n))
          : neg \in {neg0}, n \in {n0}, e \in {e0}, sticky \in {sticky0} } : TRUE

\* float(n) for an integer n
FFromInt(n0) ==
    CHOOSE v \in
        { FRound(n < 0, NFromInt(IF n < 0 THEN -n ELSE n), 0, FALSE)
          : n \in {n0} } : TRUE

FMul(a0, b0) ==
    CHOOSE v \in
        { FRound(a.neg # b.neg, NMul(a.m, b.m), a.e + b.e, FALSE)
          : a \in {a0}, b \in {b0} } : TRUE

\* a + b and a - b: the exact sum on a common exponent, rounded
FNeg(a0) ==
    CHOOSE v \in
        { IF a.m = <<>> THEN a ELSE [a EXCEPT !.neg = ~a.neg] : a \in {a0} } : TRUE
FAddAligned(aneg, bneg, x0, y0, e) ==
    CHOOSE v \in
        { IF aneg = bneg THEN FRound(aneg, NAdd(x, y), e, FALSE)
          ELSE IF NCmp(x, y) >= 0 THEN FRound(aneg, NSub(x, y), e, FALSE)
          ELSE FRound(bneg, NSub(y, x), e, FALSE)
          : x \in {x0}, y \in {y0} } : TRUE
FAdd(a0, b0) ==
    CHOOSE v \in
        { IF a.m = <<>> THEN b
          ELSE IF b.m = <<>> THEN a
          ELSE CHOOSE w \in
                   { FAddAligned(a.neg, b.neg, NShl(a.m, a.e - e), NShl(b.m, b.e - e), e)
                     : e \in { IF a.e <= b.e THEN a.e ELSE b.e } } : TRUE
          : a \in {a0}, b \in {b0} } : TRUE
FSub(a, b) == FAdd(a, FNeg(b))

\* a < b, a <= b, min(a, b)
FIsNeg(a0) == \E a \in {a0} : a.m # <<>> /\ a.neg
FLt(a, b) == FIsNeg(FSub(a, b))
FLe(a, b) == ~FLt(b, a)
FMin(a0, b0) ==
    CHOOSE v \in { IF FLt(b, a) THEN b ELSE a : a \in {a0}, b \in {b0} } : TRUE

\* one binary place of the long division of a remainder r by b, q being the
\* places found so far
FDivStep(s0, b0) ==
    CHOOSE v \in
        { CHOOSE w \in
              { IF NCmp(r2, b) >= 0
                THEN [r |-> NSub(r2, b), q |-> NAdd(q2, << 1 >>)]
                ELSE [r |-> r2, q |-> q2]
                : r2 \in { NMulSmall(s.r, 2) }, q2 \in { NMulSmall(s.q, 2) } } : TRUE
          : s \in {s0}, b \in {b0} } : TRUE

\* k > 0 places of it: the first half of them, then the others
RECURSIVE FDivBits(_, _, _)
FDivBits(s0, b0, k0) ==
    CHOOSE v \in
        { IF k = 1 THEN FDivStep(s, b)
          ELSE FDivBits(FDivBits(s, b, k \div 2), b, k - k \div 2)
          : s \in {s0}, b \in {b0}, k \in {k0} } : TRUE

GuardBits == 3

\* a / b for b # 0.0: the quotient of the mantissas to 56 more places, and
\* whether a remainder is left, rounded
FDiv(a0, b0) ==
    CHOOSE v \in
        { IF a.m = <<>> THEN FZero
          ELSE CHOOSE w \in
                   { FRound(a.neg # b.neg, d.q,
                            a.e - b.e - (MantissaBits + GuardBits), d.r # <<>>)
                     : d \in { IF NCmp(a.m, b.m) >= 0
                               THEN FDivBits([r |-> NSub(a.m, b.m), q |-> << 1 >>],
                                             b.m, MantissaBits + GuardBits)
                               ELSE FDivBits([r |-> a.m, q |-> <<>>],
                                             b.m, MantissaBits + GuardBits) } } : TRUE
          : a \in {a0}, b \in {b0} } : TRUE

\* int(a): the integer part, toward zero
FTrunc(a0) ==
    CHOOSE v \in
        { IF a.e >= 0
          THEN (IF a.neg THEN -1 ELSE 1) * NToInt(NShl(a.m, a.e))
          ELSE (IF a.neg THEN -1 ELSE 1) * NToInt(NShr(a.m, -a.e))
          : a \in {a0} } : TRUE

\* float('d.dd') for the decimal text of c hundredths
FFromHundredths(c) == FDiv(FFromInt(c), FFromInt(100))

(***************************************************************************)
(* select_vehicle and add_item_to_order on weights that are not whole      *)
(* numbers.  The operators above keep weights as integers (whole kg, on    *)
(* which double arithmetic is exact); the operators below are the same     *)
(* lines of code with the weights kept as doubles.  A catalog row's Weight *)
(* is here the decimal text of the cell, counted in hundredths of a kg     *)
(* (35 for '0.35'); a vehicle row's RemW and an order row's TotalWeight    *)
(* are the doubles float() reads from the cells (str() of a double read    *)
(* back with float() is that double); an order row also keeps its Items    *)
(* cell.                                                                   *)
(***************************************************************************)
Solid035 == <<"I", 6>>
Solid005 == <<"I", 7>>
Solid130 == <<"I", 8>>
Fragile250 == <<"I", 9>>

DecimalItems ==
    << [ID |-> Solid035, Weight |-> 35, Type |-> "solid"],
       [ID |-> Solid005, Weight |-> 5, Type |-> "solid"],
       [ID |-> Solid130, Weight |-> 130, Type |-> "solid"],
       [ID |-> Fragile250, Weight |-> 250, Type |-> "fragile"] >>

DecimalRequests ==
    { << Line(Solid035, 3) >>,
      << Line(Solid130, 1) >>,
      << Line(Solid005, 2), Line(Solid130, 3) >>,
      << Line(Solid130, 2), Line(Solid035, 3) >>,
      << Line(Fragile250, 1), Line(Solid035, 1) >> }

\* float(item['Weight'])
FloatOfWeight(item) == FFromHundredths(item.Weight)

FLeZero(a) == a.m = <<>> \/ a.neg

\* line 676, negated
NotSkippedFloat(vd) ==
    ~(FLeZero(vd.RemW) \/ vd.RemI <= 0 \/ vd.Status = "in_use")

\* lines 697-701, for an item weight above 0.0
LoadableItemsFloat(quantity, remaining_items, ric, remaining_weight, rwc, item_weight) ==
    Min3(quantity,
         Min2(remaining_items, ric),
         FTrunc(FDiv(FMin(remaining_weight, rwc), item_weight)))

\* lines 703-728
ApplyLoadFloat(st0, vd, v, l, item, n) ==
    CHOOSE r \in
        { CHOOSE r2 \in
              { [st EXCEPT
                  !.remaining_weight = rw,
                  !.remaining_items = @ - n,
                  !.lines[l].Quantity = @ - n,
                  !.rwc = upd.RemW,
                  !.ric = @ - n,
                  !.db = UpdateData(st.db, "VehicleID", vd.VehicleID, upd),
                  !.updates = Append(@, upd),
                  !.steps = Append(@, [v |-> v, VehicleID |-> vd.VehicleID,
                                       Type |-> vd.Type,
                                       l |-> l, ItemID |-> item.ID, ItemType |-> item.Type,
                                       n |-> n, w |-> w,
                                       item_weight |-> FloatOfWeight(item),
                                       weight_before |-> st.remaining_weight,
                                       capacity_before |-> st.rwc,
                                       remaining_weight |-> rw,
                                       remaining_items |-> st.remaining_items - n,
                                       quantity |-> st.lines[l].Quantity - n,
                                       rwc |-> upd.RemW, ric |-> st.ric - n])]
                : rw \in { FSub(st.remaining_weight, w) },
                  upd \in { UpdateRecord(vd, FSub(st.rwc, w), st.ric - n) } } : TRUE
          : st \in {st0}, w \in { FMul(FFromInt(n), FloatOfWeight(item)) } } : TRUE

\* lines 679-728
LoadLineFloat(st0, vd, v, items, l) ==
    CHOOSE r \in
        { IF k = 0 THEN st
          ELSE IF BikeFragile(vd, items[k]) THEN st
          ELSE IF items[k].Weight = 0 THEN [st EXCEPT !.error = "ZeroDivisionError"]
          ELSE CHOOSE r2 \in
                   { IF n > 0 THEN ApplyLoadFloat(st, vd, v, l, items[k], n) ELSE st
                     : n \in { LoadableItemsFloat(st.lines[l].Quantity,
                                                  st.remaining_items, st.ric,
                                                  st.remaining_weight, st.rwc,
                                                  FloatOfWeight(items[k])) } } : TRUE
          : st \in {st0}, k \in { FirstIndex(items, "ID", st0.lines[l].ItemID) } } : TRUE

RECURSIVE LoadLinesFloat(_, _, _, _, _)
LoadLinesFloat(st0, vd, v, items, l0) ==
    CHOOSE r \in
        { IF st.error # "none" \/ l > Len(st.lines) THEN st
          ELSE LoadLinesFloat(LoadLineFloat(st, vd, v, items, l), vd, v, items, l + 1)
          : st \in {st0}, l \in {l0} } : TRUE

\* lines 666-728
RECURSIVE VehicleLoopFloat(_, _, _, _)
VehicleLoopFloat(st0, vehicles0, items, v0) ==
    CHOOSE r \in
        { IF st.error # "none" \/ v > Len(vehicles) THEN st
          ELSE IF FLeZero(st.remaining_weight) /\ st.remaining_items <= 0 THEN st
          ELSE IF ~NotSkippedFloat(vehicles[v])
          THEN VehicleLoopFloat(st, vehicles, items, v + 1)
          ELSE VehicleLoopFloat(
                  LoadLinesFloat([st EXCEPT !.rwc = vehicles[v].RemW,
                                            !.ric = vehicles[v].RemI],
                                 vehicles[v], v, items, 1),
                  vehicles, items, v + 1)
          : st \in {st0}, vehicles \in {vehicles0}, v \in {v0} } : TRUE

SelectVehicleFloat(db, items, total_weight, item_count, lines) ==
    CHOOSE r \in
        { IF fin.error # "none" THEN fin
          ELSE [fin EXCEPT !.shortfall = NotEnoughCapacity(fin.remaining_items)]
          : fin \in { VehicleLoopFloat(
                         [db |-> db, remaining_weight |-> total_weight,
                          remaining_items |-> item_count, lines |-> lines,
                          rwc |-> FZero, ric |-> 0, updates |-> <<>>, steps |-> <<>>,
                          error |-> "none", shortfall |-> FALSE],
                         SortVehicles(db), items, 1) } } : TRUE

\* lines 814-820: Weight is quantity * float(selected_item['Weight'])
OrderItemsFloat(entered) ==
    [k \in Indices(entered) |->
        [ItemID |-> entered[k].ItemID,
         Quantity |-> entered[k].Quantity,
         Weight |-> FMul(FFromInt(entered[k].Quantity),
                         FloatOfWeight(item_db[FirstIndex(item_db, "ID", entered[k].ItemID)]))]]

\* sum(item['Weight'] for item in order_items): 0 + w1 + w2 + ...
RECURSIVE FSumFrom(_, _)
FSumFrom(acc0, weights0) ==
    CHOOSE r \in
        { IF weights = <<>> THEN acc
          ELSE FSumFrom(FAdd(acc, Head(weights)), Tail(weights))
          : acc \in {acc0}, weights \in {weights0} } : TRUE
TotalWeightFloat(order_items) ==
    FSumFrom(FZero, [k \in Indices(order_items) |-> order_items[k].Weight])

\* lines 621-634, with the Items and Total Weight cells
NewOrderWithItems(order_id, delivery_location) ==
    [OrderID |-> order_id, DeliveryLocation |-> delivery_location,
     OrderStatus |-> "processing",
     Vehicle |-> [written |-> FALSE, batches |-> <<>>],
     Items |-> <<>>, TotalWeight |-> FZero]

\* lines 872-880
OrderUpdateWithItems(order_items, new_total_weight, order_vehicles) ==
    [Items |-> order_items, TotalWeight |-> new_total_weight,
     Vehicle |-> [written |-> TRUE, batches |-> order_vehicles]]

\* lines 826-881, from the order row found and the items entered
AddItemToOrderFloatItems(base, vdb, odb, oi, order_id, order_items) ==
    \* total_weight, then select_vehicle, then the update of the order row
    CHOOSE r \in
        { CHOOSE r2 \in
              { LET called == [base EXCEPT !.order = odb[oi],
                                           !.total_weight = total_weight,
                                           !.item_count = TotalItemCountOf(order_items),
                                           !.lines = ItemsIdsAndQuantities(order_items),
                                           !.called = TRUE, !.alloc = alloc]
                IN IF alloc.error # "none"
                   THEN [vehicle_db |-> alloc.db, order_db |-> odb,
                         call |-> [called EXCEPT !.outcome = alloc.error]]
                   ELSE [vehicle_db |-> alloc.db,
                         order_db |-> UpdateData(odb, "OrderID", order_id,
                                          OrderUpdateWithItems(
                                              order_items,
                                              FAdd(odb[oi].TotalWeight, total_weight),
                                              AppendBatch(
                                                  ParseOrderVehicles(odb[oi].Vehicle),
                                                  alloc.updates))),
                         call |-> called]
                : alloc \in { SelectVehicleFloat(vdb, item_db, total_weight,
                                                 TotalItemCountOf(order_items),
                                                 ItemsIdsAndQuantities(order_items)) } }
              : TRUE
          : total_weight \in { TotalWeightFloat(order_items) } } : TRUE

\* add_item_to_order(order_id) on stores vdb / odb with the items `entered`
AddItemToOrderFloatRun(op, vdb, odb, order_id, entered) ==
    LET oi == FirstIndex(odb, "OrderID", order_id)
        base == [Idle EXCEPT !.op = op, !.id = order_id, !.pre = vdb]
    IN IF oi = 0
       THEN [vehicle_db |-> vdb, order_db |-> odb,
             call |-> [base EXCEPT !.outcome = "no_order"]]
       ELSE IF item_db = <<>>
       THEN [vehicle_db |-> vdb, order_db |-> odb,
             call |-> [base EXCEPT !.outcome = "no_items", !.order = odb[oi]]]
       ELSE CHOOSE r \in
                { AddItemToOrderFloatItems(base, vdb, odb, oi, order_id, order_items)
                  : order_items \in { OrderItemsFloat(entered) } } : TRUE

MaxFloatCalls == 2
MaxFloatOrders == 1

AddOrderShipmentFloat ==
    /\ AtMenu
    /\ calls < MaxFloatCalls
    /\ Len(order_db) < MaxFloatOrders
    /\ \E order_id \in GenerateUniqueId("O"), delivery_location \in DeliveryLocations,
          typed \in DecimalRequests :
          \E run \in { AddItemToOrderFloatRun("add_order_shipment", vehicle_db,
                         Append(order_db, NewOrderWithItems(order_id, delivery_location)),
                         order_id, EnteredLines(typed)) } :
             /\ vehicle_db' = run.vehicle_db
             /\ order_db' = run.order_db
             /\ call' = run.call
             /\ calls' = calls + 1
             /\ UNCHANGED <<item_db, user_db, login>>

AddItemToOrderFloat ==
    /\ AtMenu
    /\ calls < MaxFloatCalls
    /\ \E order_id \in TypedOrderIds, typed \in DecimalRequests :
       \E run \in { AddItemToOrderFloatRun("add_item_to_order", vehicle_db, order_db,
                                            order_id, EnteredLines(typed)) } :
          /\ vehicle_db' = run.vehicle_db
          /\ order_db' = run.order_db
          /\ call' = run.call
          /\ calls' = calls + 1
          /\ UNCHANGED <<item_db, user_db, login>>

\* the program started on a stored fleet and a catalog of four items with
\* weights of 0.35, 0.05, 1.30 and 2.50 kg
NewVehicleFloat(vehicle_id, type, max_weight, max_items) ==
    [NewVehicle(vehicle_id, type, max_weight, max_items, "Oslo/Norway")
        EXCEPT !.RemW = FFromInt(max_weight)]

FloatFleets ==
    { << NewVehicleFloat(<<"T", 1>>, "Truck", TruckMaxWeight, TruckMaxItems) >>,
      << NewVehicleFloat(<<"B", 1>>, "Bike", BikeMaxWeight, BikeMaxItems) >>,
      << NewVehicleFloat(<<"B", 1>>, "Bike", BikeMaxWeight, BikeMaxItems),
         NewVehicleFloat(<<"T", 1>>, "Truck", TruckMaxWeight, TruckMaxItems) >> }

InitFloat ==
    /\ vehicle_db \in FloatFleets
    /\ item_db = DecimalItems
    /\ order_db = <<>>
    /\ call = Idle
    /\ calls = 0
    /\ user_db = << UserRow("Mike Smith", "winter#2024") >>
    /\ login = LoggedIn

NextFloat ==
    \/ MainMenu
    \/ AddOrderShipmentFloat
    \/ AddItemToOrderFloat

SpecFloat == InitFloat /\ [][NextFloat]_vars

(***************************************************************************)
(* Properties.  While a handler's frame is there (call.op is not "menu")   *)
(* call.pre is the vehicle store the handler found and vehicle_db the      *)
(* store it left.                                                          *)
(***************************************************************************)

\* select_vehicle was called and returned its list
Allocated == call.called /\ call.alloc.error = "none"

\* the sorted snapshot select_vehicle worked on, and the same rows as stored
\* when it ended
Snapshot == SortVehicles(call.pre)
SnapshotAfter == SortVehicles(vehicle_db)

\* the loads made onto the snapshot row at position v, and their totals
StepsOn(v) == SelectSeq(call.alloc.steps, LAMBDA s : s.v = v)
UnitsOn(v) == SumSeq([k \in Indices(StepsOn(v)) |-> StepsOn(v)[k].n])
WeightOn(v) == SumSeq([k \in Indices(StepsOn(v)) |-> StepsOn(v)[k].w])

\* the unit weight select_vehicle finds for an item id (0 when unresolved)
UnitWeight(item_id) ==
    IF FirstIndex(item_db, "ID", item_id) = 0 THEN 0
    ELSE item_db[FirstIndex(item_db, "ID", item_id)].Weight
ItemTypeOf(item_id) ==
    IF FirstIndex(item_db, "ID", item_id) = 0 THEN "none"
    ELSE item_db[FirstIndex(item_db, "ID", item_id)].Type

InCapacity(row) ==
    /\ 0 <= row.RemW /\ row.RemW <= row.MaxW
    /\ 0 <= row.RemI /\ row.RemI <= row.MaxI

C2_FragileNeverOnBike ==
    call.called =>
        /\ \A k \in Indices(call.alloc.steps) :
              ~(call.alloc.steps[k].Type = "Bike" /\ call.alloc.steps[k].ItemType = "fragile")
        /\ (\A l \in Indices(call.lines) : ItemTypeOf(call.lines[l].ItemID) = "fragile")
              => \A i \in Indices(call.pre) :
                    call.pre[i].Type = "Bike" => vehicle_db[i] = call.pre[i]

\* a free Bike with room was in the fleet and fragile units were loaded elsewhere
C2_Witness ==
    /\ Allocated
    /\ \E i \in Indices(call.pre) : call.pre[i].Type = "Bike" /\ NotSkipped(call.pre[i])
    /\ \E k \in Indices(call.alloc.steps) : call.alloc.steps[k].ItemType = "fragile"

\* C3 (as claimed): after an allocation call the weight decrements of the
\* vehicles that received units sum to the weight of the units consumed from
\* the request lines, and to totalWeight minus the final running weight counter.
TouchedRows == {v \in Indices(Snapshot) : StepsOn(v) # <<>>}
RECURSIVE SumOver(_, _)
SumOver(S, f) ==
    IF S = {} THEN 0
    ELSE LET x == CHOOSE y \in S : TRUE IN f[x] + SumOver(S \ {x}, f)
StoredWeightDecrement ==
    SumOver(TouchedRows, [v \in Indices(Snapshot) |-> Snapshot[v].RemW - SnapshotAfter[v].RemW])
ConsumedWeight ==
    SumSeq([l \in Indices(call.lines) |->
              (call.lines[l].Quantity - call.alloc.lines[l].Quantity)
              * UnitWeight(call.lines[l].ItemID)])
C3_WeightConservation ==
    Allocated =>
        /\ StoredWeightDecrement = ConsumedWeight
        /\ StoredWeightDecrement = call.total_weight - call.alloc.remaining_weight

\* C4 (as claimed): a vehicle that is in_use, or has no remaining weight or
\* item capacity, when an allocation call starts receives no units, has no
\* record in the returned list and is stored unchanged; one in_use vehicle
\* and a request of one unit give no record and a remainder of 1.
C4_IneligibleUntouched ==
    Allocated =>
        /\ \A v \in Indices(Snapshot) :
              ~NotSkipped(Snapshot[v]) =>
                 /\ StepsOn(v) = <<>>
                 /\ \A k \in Indices(call.alloc.updates) :
                       call.alloc.updates[k].VehicleID # Snapshot[v].VehicleID
                 /\ SnapshotAfter[v] = Snapshot[v]
        /\ (/\ Len(call.pre) = 1
            /\ call.pre[1].Status = "in_use"
            /\ call.item_count = 1)
              => call.alloc.updates = <<>> /\ call.alloc.remaining_items = 1


\* the vehicle ids an order row's Vehicle cell refers to
ReferencedIds(order_row) ==
    {Flatten(order_row.Vehicle.batches)[k].VehicleID :
        k \in Indices(Flatten(order_row.Vehicle.batches))}

PartiallyLoaded(row) == row.RemW < row.MaxW \/ row.RemI < row.MaxI

\* a line that still has units left after the call and that the row could
\* have taken a unit of when the call started
FittingResidual(row) ==
    \E l \in Indices(call.lines) :
       /\ call.alloc.lines[l].Quantity > 0
       /\ ~(row.Type = "Bike" /\ ItemTypeOf(call.lines[l].ItemID) = "fragile")
       /\ UnitWeight(call.lines[l].ItemID) > 0
       /\ UnitWeight(call.lines[l].ItemID) <= row.RemW

C6_OneRecordPerVehicle ==
    Allocated =>
        /\ \A j, k \in Indices(call.alloc.updates) :
              j # k => call.alloc.updates[j].VehicleID # call.alloc.updates[k].VehicleID
        /\ \A v \in TouchedRows :
              \E k \in Indices(call.alloc.updates) :
                 /\ call.alloc.updates[k].VehicleID = Snapshot[v].VehicleID
                 /\ call.alloc.updates[k].RemW = Snapshot[v].RemW - WeightOn(v)
                 /\ call.alloc.updates[k].RemI = Snapshot[v].RemI - UnitsOn(v)
        /\ \A k \in Indices(call.alloc.updates) :
              \E v \in TouchedRows : call.alloc.updates[k].VehicleID = Snapshot[v].VehicleID

\* what the loads 1..k of the call took from the snapshot row at position v
WeightUpTo(v, k) ==
    SumSeq([j \in 1..k |-> IF call.alloc.steps[j].v = v THEN call.alloc.steps[j].w ELSE 0])
UnitsUpTo(v, k) ==
    SumSeq([j \in 1..k |-> IF call.alloc.steps[j].v = v THEN call.alloc.steps[j].n ELSE 0])

\* C6 (amended): the returned list holds one record per load, in the order
\* the loads were made (a vehicle that took units of several lines appears
\* once per line); each record names the loaded vehicle, has status in_use
\* and carries the vehicle's running remaining capacities after that load,
\* so the last record of a vehicle carries its cumulative remaining capacities.
C6_OneRecordPerLoad ==
    Allocated =>
        /\ Len(call.alloc.updates) = Len(call.alloc.steps)
        /\ \A k \in Indices(call.alloc.updates) :
              LET v == call.alloc.steps[k].v
                  u == call.alloc.updates[k]
              IN /\ u.VehicleID = Snapshot[v].VehicleID
                 /\ u.Status = "in_use"
                 /\ u.RemW = Snapshot[v].RemW - WeightUpTo(v, k)
                 /\ u.RemI = Snapshot[v].RemI - UnitsUpTo(v, k)

\* one vehicle took units of two lines and has two records in the list
C6_Witness ==
    /\ Allocated
    /\ \E j, k \in Indices(call.alloc.updates) :
          /\ j < k
          /\ call.alloc.steps[j].v = call.alloc.steps[k].v
          /\ call.alloc.updates[j].VehicleID = call.alloc.updates[k].VehicleID
          /\ call.alloc.updates[k].RemW < call.alloc.updates[j].RemW

AssignedUnits == SumSeq([k \in Indices(call.alloc.steps) |-> call.alloc.steps[k].n])

\* C8: an allocation call whose lines all have a positive unit weight returns
\* its list however little the fleet can carry; the final item counter is
\* totalItemCount minus the units assigned, and the shortfall message is
\* printed exactly when that counter is above 0.
C8_RemainderAndShortfall ==
    call.called =>
        /\ (\A l \in Indices(call.lines) : UnitWeight(call.lines[l].ItemID) > 0)
              => call.alloc.error = "none"
        /\ Allocated =>
              /\ call.outcome = "ok"
              /\ call.alloc.remaining_items = call.item_count - AssignedUnits
              /\ call.alloc.shortfall <=> call.alloc.remaining_items > 0

\* the fleet carried a part of the request: units were assigned, one unit
\* was left over, and the shortfall message was printed
C8_Witness ==
    /\ Allocated
    /\ call.alloc.steps # <<>>
    /\ call.alloc.remaining_items = 1
    /\ call.alloc.shortfall

StatusUpdated(new_status) ==
    /\ call.op = "update_order_status"
    /\ call.outcome = "ok"
    /\ call.new_status = new_status

IsReset(row) == row.RemW = row.MaxW /\ row.RemI = row.MaxI /\ row.Status = "free"

\* C9 (as claimed): after update_order_status has set an order to delivered,
\* every stored vehicle referenced by a batch of that order's Vehicle cell has
\* its remaining capacities at their maxima, status free and the order's
\* delivery location as its position.
C9_DeliveredReset ==
    StatusUpdated("delivered") =>
        \A o \in Indices(order_db) :
           order_db[o].OrderID = call.id =>
              \A i \in Indices(vehicle_db) :
                 vehicle_db[i].VehicleID \in ReferencedIds(order_db[o]) =>
                    /\ IsReset(vehicle_db[i])
                    /\ vehicle_db[i].Pos = order_db[o].DeliveryLocation

\* C10 (as claimed): after update_order_status has set an order to canceled,
\* every stored vehicle the order refers to has its remaining capacities at
\* their maxima and status free, and its position is what it was; setting an
\* order to processing changes no vehicle.
C10_CanceledReset ==
    /\ StatusUpdated("canceled") =>
          \A o \in Indices(order_db) :
             order_db[o].OrderID = call.id =>
                \A i \in Indices(vehicle_db) :
                   vehicle_db[i].VehicleID \in ReferencedIds(order_db[o]) =>
                      /\ IsReset(vehicle_db[i])
                      /\ vehicle_db[i].Pos = call.pre[i].Pos
    /\ StatusUpdated("processing") => vehicle_db = call.pre

\* a canceled order referred to a loaded, in_use vehicle that was not at the
\* order's delivery location; the vehicle is now free, empty and where it was
C10_Witness ==
    /\ StatusUpdated("canceled")
    /\ \E i \in Indices(vehicle_db) :
          /\ vehicle_db[i].VehicleID \in ReferencedIds(call.order)
          /\ call.pre[i].Status = "in_use"
          /\ PartiallyLoaded(call.pre[i])
          /\ IsReset(vehicle_db[i])
          /\ vehicle_db[i].Pos # call.order.DeliveryLocation


\* C11: in every reachable state every stored vehicle with status free has
\* both remaining capacities at their maxima; a vehicle with a remaining
\* capacity below its maximum is in_use.
C11_FreeMeansFull ==
    \A i \in Indices(vehicle_db) :
       PartiallyLoaded(vehicle_db[i]) => vehicle_db[i].Status = "in_use"

\* an allocation has loaded one vehicle, now in_use with a capacity below its
\* maximum, and left another one free with both capacities at their maxima
C11_Witness ==
    /\ Allocated
    /\ \E i, j \in Indices(vehicle_db) :
          /\ PartiallyLoaded(vehicle_db[i]) /\ vehicle_db[i].Status = "in_use"
          /\ call.pre[i].Status = "free"
          /\ vehicle_db[j].Status = "free" /\ ~PartiallyLoaded(vehicle_db[j])

\* C12 (as claimed): after an allocation call a vehicle that was free before
\* it is in_use exactly when it was assigned a unit in the call, and a
\* vehicle that was in_use is still in_use.
C12_FreeToInUse ==
    Allocated =>
        \A v \in Indices(Snapshot) :
           /\ Snapshot[v].Status = "free" =>
                 (SnapshotAfter[v].Status = "in_use" <=> StepsOn(v) # <<>>)
           /\ Snapshot[v].Status = "in_use" => SnapshotAfter[v].Status = "in_use"

\* C13 (as claimed): a vehicle that is assigned no unit in an allocation call
\* has no record in the returned list, and its stored row is the same before
\* and after the call.
C13_ZeroAssignmentUntouched ==
    Allocated =>
        \A v \in Indices(Snapshot) :
           StepsOn(v) = <<>> =>
              /\ \A k \in Indices(call.alloc.updates) :
                    call.alloc.updates[k].VehicleID # Snapshot[v].VehicleID
              /\ SnapshotAfter[v] = Snapshot[v]

InUseRows(rows) == SelectSeq(rows, LAMBDA r : r.Status = "in_use")

\* C18: a step that takes rows out of the vehicle store is a remove_vehicles
\* call that takes out exactly the rows with the typed id, all of them free,
\* and keeps every in_use row; a remove_vehicles call that refuses or finds
\* nothing leaves the store as it was.
C18_InUseNeverRemoved ==
    [][ /\ Len(vehicle_db') < Len(vehicle_db) =>
              /\ call'.op = "remove_vehicles" /\ call'.outcome = "ok"
              /\ vehicle_db' = SelectSeq(vehicle_db, LAMBDA r : r.VehicleID # call'.id)
              /\ \A i \in Indices(vehicle_db) :
                    vehicle_db[i].VehicleID = call'.id => vehicle_db[i].Status = "free"
              /\ InUseRows(vehicle_db') = InUseRows(vehicle_db)
        /\ (call'.op = "remove_vehicles" /\ call'.outcome # "ok") =>
              vehicle_db' = vehicle_db ]_vars

\* remove_vehicles was asked for an in_use vehicle, refused, and the row is
\* still stored
C18_Witness ==
    /\ call.op = "remove_vehicles"
    /\ call.outcome = "in_use"
    /\ \E i \in Indices(vehicle_db) :
          vehicle_db[i].VehicleID = call.id /\ vehicle_db[i].Status = "in_use"

\* C19 (as claimed): no two rows of the vehicle store share a Vehicle ID and
\* no two rows of the order store share an Order ID.
C19_UniqueIds ==
    /\ \A i, j \in Indices(vehicle_db) :
          i # j => vehicle_db[i].VehicleID # vehicle_db[j].VehicleID
    /\ \A i, j \in Indices(order_db) :
          i # j => order_db[i].OrderID # order_db[j].OrderID



\* C20: the handlers run only after a login that returned CHECK; CHECK is
\* returned only when the name typed is that of a stored user and the
\* password just read equals the password of that user's (first) row; at
\* most three passwords are read, and after three that do not match, or
\* after a name no user has, the program exits without running a handler.
C20_LoginGate ==
    /\ Len(login.entries) <= LoginAttempts
    /\ login.check <=> login.phase = "run"
    /\ login.check =>
          /\ login.entries # <<>>
          /\ \E i \in Indices(user_db) :
                /\ user_db[i].FullName = login.full_name
                /\ \A j \in 1..(i - 1) : user_db[j].FullName # login.full_name
                /\ user_db[i].Password = login.entries[Len(login.entries)]
    /\ login.phase = "exit" =>
          \/ login.entries = <<>> /\ MatchingRows(user_db, "FullName", login.full_name) = {}
          \/ Len(login.entries) = LoginAttempts
    /\ login.phase # "run" => call = Idle /\ calls = 0 /\ vehicle_db = <<>>

\* a login that succeeded at the third password, after which a handler ran
C20_Witness ==
    /\ login.check
    /\ Len(login.entries) = LoginAttempts
    /\ call.op = "add_bike"

\* three passwords that did not match: the program has exited
C20_WitnessLockedOut ==
    /\ login.phase = "exit"
    /\ Len(login.entries) = LoginAttempts

\* C17: every item add_item_to_database stored has a per-unit weight above
\* 0, and no allocation call ends with a division error.
C17_PositiveWeights ==
    /\ \A i \in Indices(item_db) : item_db[i].Weight > 0
    /\ call.outcome # "ZeroDivisionError"

\* the request lines of the call the catalog does not resolve
UnresolvedLines == {l \in Indices(call.lines) : FirstIndex(item_db, "ID", call.lines[l].ItemID) = 0}

\* where line l stands in the list without the unresolved lines
PositionResolved(l) == l - Cardinality({u \in UnresolvedLines : u < l})

\* C14: a request line whose item id is not in the catalog raises no error,
\* keeps its quantity and is loaded nowhere, and the call ends as the call
\* on the list without the unresolved lines ends: same error or none, same
\* store, same running weight and item counter, same returned updates,
\* same loads and same quantities left on the other lines.
C14_UnresolvedTolerated ==
    call.op = "select_vehicle" =>
       LET alloc == call.alloc
           without == SelectVehicle(call.pre, item_db, call.total_weight,
                                    call.item_count, EnteredLines(call.lines))
       IN /\ alloc.error = without.error
          /\ alloc.error # "StopIteration"
          /\ \A l \in UnresolvedLines :
                /\ alloc.lines[l] = call.lines[l]
                /\ \A k \in Indices(alloc.steps) : alloc.steps[k].l # l
          /\ \A l \in Indices(call.lines) \ UnresolvedLines :
                alloc.lines[l] = without.lines[PositionResolved(l)]
          /\ alloc.db = without.db
          /\ vehicle_db = without.db
          /\ alloc.remaining_weight = without.remaining_weight
          /\ alloc.remaining_items = without.remaining_items
          /\ alloc.updates = without.updates
          /\ alloc.shortfall = without.shortfall
          /\ Len(alloc.steps) = Len(without.steps)
          /\ \A k \in Indices(alloc.steps) :
                [alloc.steps[k] EXCEPT !.l = PositionResolved(@)] = without.steps[k]
          /\ (UnresolvedLines = Indices(call.lines)) =>
                /\ vehicle_db = call.pre
                /\ alloc.remaining_weight = call.total_weight
                /\ alloc.remaining_items = call.item_count

\* an unresolved line stands before a line that was loaded
C14_Witness ==
    /\ call.op = "select_vehicle"
    /\ call.outcome = "ok"
    /\ \E u \in UnresolvedLines, k \in Indices(call.alloc.steps) :
          /\ u < call.alloc.steps[k].l
          /\ vehicle_db # call.pre

\* C15: update_vehicle with an id no row has ends with ValueError and the
\* store as it was; with an id some row has it ends without error, the rows
\* with another id are as they were, and on the rows with the id the fields
\* given hold the values given and the other fields are as they were.
C15_UpdateVehicle ==
    call.op = "update_vehicle" =>
       LET found == MatchingRows(call.pre, "VehicleID", call.id)
       IN /\ Len(vehicle_db) = Len(call.pre)
          /\ found = {} => call.outcome = "ValueError" /\ vehicle_db = call.pre
          /\ found # {} => call.outcome = "ok"
          /\ \A i \in Indices(call.pre) :
                IF i \in found
                THEN \A f \in DOMAIN call.pre[i] :
                        vehicle_db[i][f] = IF f \in DOMAIN call.update_data
                                           THEN call.update_data[f]
                                           ELSE call.pre[i][f]
                ELSE vehicle_db[i] = call.pre[i]

\* an update that changed one of two rows
C15_Witness ==
    /\ call.op = "update_vehicle"
    /\ call.outcome = "ok"
    /\ \E i, j \in Indices(call.pre) :
          /\ vehicle_db[i] # call.pre[i]
          /\ call.pre[j].VehicleID # call.id

\* an update with an id the store of two rows does not hold
C15_WitnessNotFound ==
    /\ call.op = "update_vehicle"
    /\ call.outcome = "ValueError"
    /\ Len(call.pre) = 2

\* the entries the status update went through, in order
ResetEntries == Flatten(call.order.Vehicle.batches)

\* the store the handler found has a row for the entry
FoundBefore(entry) == MatchingRows(call.pre, "VehicleID", entry.VehicleID) # {}

C16_WitnessEarlierKept ==
    /\ StatusUpdated("delivered")
    /\ Len(ResetEntries) >= 2
    /\ FoundBefore(ResetEntries[1])
    /\ ~FoundBefore(ResetEntries[2])
    /\ \E i \in Indices(call.pre) :
          /\ call.pre[i].VehicleID = ResetEntries[1].VehicleID
          /\ vehicle_db[i] # call.pre[i]

(***************************************************************************)
(* The running values of a select_vehicle call when it comes to the line   *)
(* at position l for the snapshot row at position v, rebuilt from the      *)
(* call's inputs and the loads made before that moment.                    *)
(***************************************************************************)
LoadsBefore(v, l) ==
    SelectSeq(call.alloc.steps, LAMBDA s : s.v < v \/ (s.v = v /\ s.l < l))
UnitsOf(loads) == SumSeq([k \in Indices(loads) |-> loads[k].n])
WeightOf(loads) == SumSeq([k \in Indices(loads) |-> loads[k].w])

RunningItems(v, l) == call.item_count - UnitsOf(LoadsBefore(v, l))
RunningWeight(v, l) == call.total_weight - WeightOf(LoadsBefore(v, l))
RunningQuantity(v, l) ==
    call.lines[l].Quantity - UnitsOf(SelectSeq(LoadsBefore(v, l), LAMBDA s : s.l = l))
RunningItemCapacity(v, l) ==
    Snapshot[v].RemI - UnitsOf(SelectSeq(LoadsBefore(v, l), LAMBDA s : s.v = v))
RunningWeightCapacity(v, l) ==
    Snapshot[v].RemW - WeightOf(SelectSeq(LoadsBefore(v, l), LAMBDA s : s.v = v))

\* min(quantity, remaining items, item capacity, floor(min(remaining
\* weight, weight capacity) / unit weight)) for a unit weight above 0
MinOfFour(v, l) ==
    Min2(Min2(RunningQuantity(v, l), RunningItems(v, l)),
         Min2(RunningItemCapacity(v, l),
              Min2(RunningWeight(v, l), RunningWeightCapacity(v, l))
                 \div UnitWeight(call.lines[l].ItemID)))

\* the pair (snapshot row v, line l) gets as far as line 697
ReachesLoad(v, l) ==
    /\ NotSkipped(Snapshot[v])
    /\ ~(RunningWeight(v, 1) <= 0 /\ RunningItems(v, 1) <= 0)
    /\ FirstIndex(item_db, "ID", call.lines[l].ItemID) # 0
    /\ ~(Snapshot[v].Type = "Bike" /\ ItemTypeOf(call.lines[l].ItemID) = "fragile")

\* the units line l put on snapshot row v (0 without a load)
UnitsAssigned(v, l) ==
    UnitsOf(SelectSeq(call.alloc.steps, LAMBDA s : s.v = v /\ s.l = l))

\* C21: every load of a call puts min(line quantity, running item counter,
\* vehicle item capacity, floor(min(running weight counter, vehicle weight
\* capacity) / unit weight)) units on the vehicle, all taken when the pair is
\* processed; a processed pair of a returned call without a load has that
\* minimum at 0; a free bike and a free ship with 3 units of the 2 kg solid
\* item give 2 units on the bike, 1 on the ship and remainder 0.
C21_LoadableQuantity ==
    /\ call.called =>
          \A k \in Indices(call.alloc.steps) :
             LET s == call.alloc.steps[k]
             IN /\ UnitWeight(s.ItemID) > 0
                /\ ReachesLoad(s.v, s.l)
                /\ s.n = MinOfFour(s.v, s.l)
                /\ s.w = s.n * UnitWeight(s.ItemID)
                /\ UnitsAssigned(s.v, s.l) = s.n
    /\ Allocated =>
          \A v \in Indices(Snapshot), l \in Indices(call.lines) :
             (ReachesLoad(v, l) /\ UnitsAssigned(v, l) = 0) => MinOfFour(v, l) = 0
    /\ (/\ Allocated
        /\ Len(Snapshot) = 2
        /\ Snapshot[1].Type = "Bike" /\ Snapshot[1].Status = "free"
        /\ Snapshot[2].Type = "Ship" /\ Snapshot[2].Status = "free"
        /\ call.lines = << Line(Solid2, 3) >>)
          => /\ UnitsAssigned(1, 1) = 2
             /\ UnitsAssigned(2, 1) = 1
             /\ call.alloc.remaining_items = 0

\* the example: a free bike and a free ship, 3 units of the 2 kg item
C21_Witness ==
    /\ Allocated
    /\ Len(Snapshot) = 2
    /\ Snapshot[1].Type = "Bike" /\ Snapshot[1].Status = "free"
    /\ Snapshot[2].Type = "Ship" /\ Snapshot[2].Status = "free"
    /\ call.lines = << Line(Solid2, 3) >>
    /\ UnitsAssigned(1, 1) = 2
    /\ UnitsAssigned(2, 1) = 1

\* the sort key of the stored vehicle with the given id, from its row in the
\* store the call found (rows of one id are of one type and have one key)
RowOfId(vehicle_id) == call.pre[FirstIndex(call.pre, "VehicleID", vehicle_id)]

\* C22: the rows a call works through are the stored rows in ascending
\* order of (max item count, max weight), rows of equal key in their stored
\* order; the loads are made vehicle by vehicle in that order and line by
\* line, so the ids of the returned records are in non-decreasing key order
\* (records of equal key in stored order), and when a vehicle is loaded from
\* a line every eligible vehicle before it has had that line and taken from
\* it what it could take.
C22_OrderingPolicy ==
    call.called =>
       /\ Len(Snapshot) = Len(call.pre)
       /\ \E p \in [Indices(call.pre) -> Indices(call.pre)] :
             /\ \A i, j \in Indices(call.pre) : i # j => p[i] # p[j]
             /\ \A i \in Indices(call.pre) : Snapshot[i] = call.pre[p[i]]
             /\ \A i, j \in Indices(call.pre) :
                   i < j => /\ ~KeyLess(Snapshot[j], Snapshot[i])
                            /\ ~KeyLess(Snapshot[i], Snapshot[j]) => p[i] < p[j]
       /\ \A k \in Indices(call.alloc.steps) :
             /\ call.alloc.steps[k].VehicleID = Snapshot[call.alloc.steps[k].v].VehicleID
             /\ call.alloc.updates[k].VehicleID = call.alloc.steps[k].VehicleID
       /\ \A j, k \in Indices(call.alloc.steps) :
             j < k =>
                LET a == call.alloc.steps[j]
                    b == call.alloc.steps[k]
                IN /\ a.v < b.v \/ (a.v = b.v /\ a.l < b.l)
                   /\ ~KeyLess(RowOfId(b.VehicleID), RowOfId(a.VehicleID))
                   /\ (/\ ~KeyLess(RowOfId(a.VehicleID), RowOfId(b.VehicleID))
                       /\ a.VehicleID # b.VehicleID)
                         => FirstIndex(call.pre, "VehicleID", a.VehicleID)
                               < FirstIndex(call.pre, "VehicleID", b.VehicleID)
       /\ \A k \in Indices(call.alloc.steps) :
             \A v \in 1..(call.alloc.steps[k].v - 1) :
                ReachesLoad(v, call.alloc.steps[k].l)
                   => UnitsAssigned(v, call.alloc.steps[k].l)
                         = MinOfFour(v, call.alloc.steps[k].l)

\* the truck is stored before the bike, and the bike was loaded first
C22_Witness ==
    /\ Allocated
    /\ Len(call.pre) = 2
    /\ call.pre[1].Type = "Truck" /\ call.pre[2].Type = "Bike"
    /\ Len(call.alloc.updates) >= 2
    /\ call.alloc.updates[1].VehicleID = call.pre[2].VehicleID
    /\ call.alloc.updates[Len(call.alloc.updates)].VehicleID = call.pre[1].VehicleID

\* two bikes of different ids were loaded in their stored order, the higher
\* id first
C22_WitnessEqualKeys ==
    /\ Allocated
    /\ Len(call.pre) = 2
    /\ call.pre[1].VehicleID = <<"B", 2>> /\ call.pre[2].VehicleID = <<"B", 1>>
    /\ Len(call.alloc.updates) = 2
    /\ call.alloc.updates[1].VehicleID = <<"B", 2>>
    /\ call.alloc.updates[2].VehicleID = <<"B", 1>>

\* the totals passed are the sums over the request lines, which all resolve
TotalsAreSums ==
    /\ \A l \in Indices(call.lines) : FirstIndex(item_db, "ID", call.lines[l].ItemID) # 0
    /\ call.item_count = SumSeq([l \in Indices(call.lines) |-> call.lines[l].Quantity])
    /\ call.total_weight = SumSeq([l \in Indices(call.lines) |->
                                     call.lines[l].Quantity * UnitWeight(call.lines[l].ItemID)])

\* C23: at the end of an allocation call whose totals are the sums over its
\* lines, all resolved, no vehicle that was eligible when the call started can
\* take one more unit of a line that has units left: its remaining item
\* capacity is 0, or its remaining weight capacity is below the unit weight,
\* or it is a Bike and the item is fragile; this holds of the capacities the
\* call ended with and of the row as stored.
C23_GreedyMaximal ==
    (Allocated /\ TotalsAreSums) =>
        \A v \in Indices(Snapshot), l \in Indices(call.lines) :
           (NotSkipped(Snapshot[v]) /\ call.alloc.lines[l].Quantity > 0) =>
              /\ \/ Snapshot[v].RemI - UnitsOn(v) = 0
                 \/ Snapshot[v].RemW - WeightOn(v) < UnitWeight(call.lines[l].ItemID)
                 \/ Snapshot[v].Type = "Bike" /\ ItemTypeOf(call.lines[l].ItemID) = "fragile"
              /\ \/ SnapshotAfter[v].RemI = 0
                 \/ SnapshotAfter[v].RemW < UnitWeight(call.lines[l].ItemID)
                 \/ Snapshot[v].Type = "Bike" /\ ItemTypeOf(call.lines[l].ItemID) = "fragile"

\* an eligible vehicle was loaded and has item capacity left, and a line it
\* is too full to take by weight has a unit left
C23_Witness ==
    /\ Allocated
    /\ TotalsAreSums
    /\ \E v \in Indices(Snapshot), l \in Indices(call.lines) :
          /\ NotSkipped(Snapshot[v])
          /\ StepsOn(v) # <<>>
          /\ call.alloc.lines[l].Quantity > 0
          /\ SnapshotAfter[v].RemI > 0
          /\ SnapshotAfter[v].RemW < UnitWeight(call.lines[l].ItemID)
          /\ ItemTypeOf(call.lines[l].ItemID) = "solid"

(***************************************************************************)
(* The same questions on weights that are not whole numbers (SpecFloat).   *)
(***************************************************************************)
\* k * item_weight <= bound, exactly (no rounding), for k >= 0 and
\* item_weight > 0.0
ExactProductLe(k, item_weight, bound) ==
    IF bound.m = <<>> THEN k = 0
    ELSE IF bound.neg THEN FALSE
    ELSE \E e \in { IF item_weight.e <= bound.e THEN item_weight.e ELSE bound.e } :
            NCmp(NShl(NMulSmall(item_weight.m, k), item_weight.e - e),
                 NShl(bound.m, bound.e - e)) <= 0

\* min(cap, floor(bound / item_weight)) for the exact quotient; -1 stands for
\* a quotient below 0
ExactFloorUpTo(cap, item_weight, bound) ==
    IF FIsNeg(bound) THEN -1
    ELSE CHOOSE k \in 0..cap :
            /\ ExactProductLe(k, item_weight, bound)
            /\ (k = cap \/ ~ExactProductLe(k + 1, item_weight, bound))

UnitWeightFloat(item_id) == FloatOfWeight(item_db[FirstIndex(item_db, "ID", item_id)])

\* the totals of a call on decimal weights are the sums over its lines, which
\* all resolve (lines 814-830)
TotalsAreSumsFloat ==
    /\ \A l \in Indices(call.lines) : FirstIndex(item_db, "ID", call.lines[l].ItemID) # 0
    /\ call.item_count = SumSeq([l \in Indices(call.lines) |-> call.lines[l].Quantity])
    /\ call.total_weight =
          FSumFrom(FZero, [l \in Indices(call.lines) |->
                              FMul(FFromInt(call.lines[l].Quantity),
                                   UnitWeightFloat(call.lines[l].ItemID))])

\* C23 on decimal weights: at the end of an allocation call whose totals are
\* the sums over its lines, all resolved, no vehicle that was eligible when
\* the call started can take one more unit of a line that has units left: its
\* remaining item capacity is 0, or its remaining weight capacity is below
\* the unit weight, or it is a Bike and the item is fragile.
C23_GreedyMaximalDecimal ==
    (Allocated /\ TotalsAreSumsFloat) =>
        \A v \in Indices(Snapshot), l \in Indices(call.lines) :
           (NotSkippedFloat(Snapshot[v]) /\ call.alloc.lines[l].Quantity > 0) =>
              \/ SnapshotAfter[v].RemI = 0
              \/ FLt(SnapshotAfter[v].RemW, UnitWeightFloat(call.lines[l].ItemID))
              \/ Snapshot[v].Type = "Bike" /\ ItemTypeOf(call.lines[l].ItemID) = "fragile"

\* C30 on decimal weights: at every assignment step of a call whose totals
\* are the sums over its lines, the running remaining-item counter, the
\* running remaining-weight counter and the line's quantity are >= 0, and
\* when the call ends every line quantity is >= 0 and the remaining-item
\* counter is the sum of the residual line quantities.
C30_NonNegativeCountersDecimal ==
    (call.called /\ TotalsAreSumsFloat) =>
        /\ \A s \in Indices(call.alloc.steps) :
              /\ call.alloc.steps[s].remaining_items >= 0
              /\ ~FIsNeg(call.alloc.steps[s].remaining_weight)
              /\ call.alloc.steps[s].quantity >= 0
        /\ \A l \in Indices(call.alloc.lines) : call.alloc.lines[l].Quantity >= 0
        /\ call.alloc.remaining_items =
              SumSeq([l \in Indices(call.alloc.lines) |-> call.alloc.lines[l].Quantity])

\* C28: the Total Weight every order row stores is the sum of the Weight
\* values of the entries of the Items the row stores.
C28_OrderWeightConsistency ==
    \A o \in Indices(order_db) :
        order_db[o].TotalWeight = TotalWeightFloat(order_db[o].Items)

\* C25: every allocation call ends after at most (number of vehicles x number
\* of request lines) assignment steps, one per (vehicle, line) pair at most,
\* and returns at most that many records.
C25_TerminationBound ==
    call.called =>
        /\ call.alloc.error \in {"none", "ZeroDivisionError"}
        /\ Len(call.alloc.steps) <= Len(call.pre) * Len(call.lines)
        /\ Len(call.alloc.updates) <= Len(call.pre) * Len(call.lines)
        /\ \A s, t \in Indices(call.alloc.steps) :
              (call.alloc.steps[s].v = call.alloc.steps[t].v
               /\ call.alloc.steps[s].l = call.alloc.steps[t].l) => s = t

\* a call on two vehicles and two lines that loaded each line on each vehicle
C25_Witness ==
    /\ Allocated
    /\ Len(call.pre) = 2
    /\ Len(call.lines) = 2
    /\ Len(call.alloc.steps) = 4
    /\ Len(call.alloc.updates) = 4

\* C29: an update_order_status to 'delivered' or 'canceled' on an order that
\* is in the store completes without error and leaves every row of that
\* order id with the new status.
C29_StatusUpdateCompletes ==
    (/\ call.op = "update_order_status"
     /\ call.new_status \in {"delivered", "canceled"}
     /\ call.outcome # "no_order")
    => /\ call.outcome = "ok"
       /\ \A o \in Indices(order_db) :
             order_db[o].OrderID = call.id => order_db[o].OrderStatus = call.new_status

\* the vehicle ids the Vehicle field of an order row names
ReferencedBy(order_data) ==
    { Flatten(order_data.Vehicle.batches)[k].VehicleID :
        k \in Indices(Flatten(order_data.Vehicle.batches)) }

\* C27: every vehicle with status in_use is named by the Vehicle field of an
\* order whose status is 'processing'.
C27_NoOrphanedInUse ==
    \A i \in Indices(vehicle_db) :
        vehicle_db[i].Status = "in_use" =>
            \E o \in Indices(order_db) :
                /\ order_db[o].OrderStatus = "processing"
                /\ vehicle_db[i].VehicleID \in ReferencedBy(order_db[o])

\* C26: a delivered or canceled update_order_status on an order leaves the
\* status and the remaining capacities of every vehicle that is in_use and
\* named by a different order whose status is 'processing' as they were
\* before the call.
C26_ResetKeepsOtherOrders ==
    (/\ call.op = "update_order_status"
     /\ call.new_status \in {"delivered", "canceled"}
     /\ call.outcome = "ok")
    => \A i \in Indices(call.pre) :
          (/\ call.pre[i].Status = "in_use"
           /\ \E o \in Indices(order_db) :
                 /\ order_db[o].OrderID # call.id
                 /\ order_db[o].OrderStatus = "processing"
                 /\ call.pre[i].VehicleID \in ReferencedBy(order_db[o]))
          => /\ vehicle_db[i].Status = call.pre[i].Status
             /\ vehicle_db[i].RemW = call.pre[i].RemW
             /\ vehicle_db[i].RemI = call.pre[i].RemI

\* the entries of a list of references without the entries that name a
\* vehicle id an earlier entry names
RECURSIVE FirstReferences(_, _)
FirstReferences(entries, seen) ==
    IF entries = <<>> THEN <<>>
    ELSE IF Head(entries).VehicleID \in seen THEN FirstReferences(Tail(entries), seen)
    ELSE << Head(entries) >>
         \o FirstReferences(Tail(entries), seen \cup {Head(entries).VehicleID})

RepeatedReference(entries) ==
    \E j, k \in Indices(entries) : j # k /\ entries[j].VehicleID = entries[k].VehicleID

\* C24: after a delivered or canceled update_order_status, which resets once
\* for every reference of the order's Vehicle field, the vehicle store is the
\* store that one reset for each vehicle id referenced gives.
C24_ResetIdempotent ==
    (/\ call.op = "update_order_status"
     /\ call.new_status \in {"delivered", "canceled"}
     /\ call.outcome = "ok")
    => vehicle_db = ForEachEntry(call.pre,
                                 FirstReferences(Flatten(call.order.Vehicle.batches), {}),
                                 call.new_status, call.order.DeliveryLocation)

\* an order that names an in_use vehicle twice has been set to delivered
C24_Witness ==
    /\ call.op = "update_order_status"
    /\ call.new_status = "delivered"
    /\ call.outcome = "ok"
    /\ RepeatedReference(Flatten(call.order.Vehicle.batches))
    /\ \E i \in Indices(call.pre) :
          /\ call.pre[i].Status = "in_use"
          /\ vehicle_db[i].Status = "free"
          /\ \E j, k \in Indices(Flatten(call.order.Vehicle.batches)) :
                /\ j # k
                /\ Flatten(call.order.Vehicle.batches)[j].VehicleID = call.pre[i].VehicleID
                /\ Flatten(call.order.Vehicle.batches)[k].VehicleID = call.pre[i].VehicleID

\* the same for an order set to canceled whose references repeat across batches
C24_WitnessCanceledAcrossBatches ==
    /\ call.op = "update_order_status"
    /\ call.new_status = "canceled"
    /\ call.outcome = "ok"
    /\ Len(call.order.Vehicle.batches) = 2
    /\ \E j \in Indices(call.order.Vehicle.batches[1]),
          k \in Indices(call.order.Vehicle.batches[2]) :
          call.order.Vehicle.batches[1][j].VehicleID
             = call.order.Vehicle.batches[2][k].VehicleID

====
